---- MODULE Spec2Model ----
(***************************************************************************)
(* A model of the live-transcript core of the interview assistant:         *)
(*   - useTranscriptBuffer (src/src/hooks/useTranscriptBuffer.ts): the     *)
(*     per-speaker sentence commit buffer, the finalized-row log and the   *)
(*     requestAnimationFrame flush that publishes `segments`;              *)
(*   - createAudioAttribution (src/unnamed/part_001): classifySystem and   *)
(*     classifyMic;                                                        *)
(*   - LiveTranscript (src/src/components/LiveTranscript.tsx): the         *)
(*     coalescing render of the published segments.                        *)
(* A text is a sequence of one-character strings, so that normalisation,   *)
(* joining, case folding and substring tests are computed, not assumed.    *)
(***************************************************************************)
EXTENDS Integers, Sequences, FiniteSets, TLC

VARIABLES
    confirmedBySpeaker,     \* ref: speaker -> sequence of WordUnit ([] when the key is unset)
    commitIdxBySpeaker,     \* ref: speaker -> commit index (0 when the key is unset)
    interimTextBySpeaker,   \* ref: insertion-ordered map, a sequence of [sp, txt] entries
    finalRows,              \* ref: the finalized-row log
    scheduled,              \* ref: the pending-flush flag
    rafPending,             \* number of requestAnimationFrame(flush) callbacks outstanding
    segments,               \* React state: the published sequence
    clock,                  \* Date.now()
    lastSystemTs,           \* createAudioAttribution: closure variable
    systemBiasMs,           \* createAudioAttribution: option
    vadThreshold,           \* createAudioAttribution: option, in hundredths
    systemActive,           \* what isSystemActive() returns
    decision,               \* the AttributionDecision returned by the last classify call
    display,                \* LiveTranscript: displayRows of the last render
    lastOp,                 \* history: the buffer operation performed by the last step
    lastCall,               \* history: the inputs of the last classify call
    scenario,               \* history: the sentence scenario being delivered, if any
    wordOnly,               \* history: speaker -> no fallback event accepted since the last clear
    nEvents,                \* history: number of operations issued so far (bounds the runs)
    micLive,                \* window.__micLive: the slot the recognizer writes and the poll reads
    lastMicSnapshotRef,     \* InterviewDashboard: the last slot content the poll has handled
    lastThemFinalRef,       \* InterviewDashboard: the last final system transcript and its time
    micLog,                 \* history: mic finals published, handed to upsertTranscript, rejected
    liveSession,            \* startLiveFromStream: recorder, isOpen, keepAliveTimer, the socket
    liveLog                 \* history: cleanup called, chunks recorded and chunks sent

bufVars == <<confirmedBySpeaker, commitIdxBySpeaker, interimTextBySpeaker, finalRows,
             scheduled, rafPending, segments>>
attrVars == <<lastSystemTs, systemBiasMs, vadThreshold, systemActive, decision, lastCall>>
dashVars == <<micLive, lastMicSnapshotRef, lastThemFinalRef, micLog>>
liveVars == <<liveSession, liveLog>>
vars == <<confirmedBySpeaker, commitIdxBySpeaker, interimTextBySpeaker, finalRows,
          scheduled, rafPending, segments, clock, lastSystemTs, systemBiasMs,
          vadThreshold, systemActive, decision, display, lastOp, lastCall, scenario,
          wordOnly, nEvents, micLive, lastMicSnapshotRef, lastThemFinalRef, micLog,
          liveSession, liveLog>>

(***************************************************************************)
(* Bounds of the model.                                                    *)
(***************************************************************************)
MaxEvents == 2
\* upsertTranscript calls counted by nEvents in one run
MaxWords == 2
\* words carried by one event
MaxMs == 2
\* largest endMs of a word of the buffer specification
MaxTick == 2
\* Date.now() advances by at most MaxTick bias windows
MaxSegs == 3
\* finalized rows of a published sequence handed to the render
MaxSentenceMs == 3
\* largest endMs of a word of the sentence scenario
CapSlack == 4
\* rows beyond MAX_ROWS in the log the row-cap specification starts from
StartClock == 1000
\* Date.now() when the session starts
MaxChunks == 6
\* dataavailable events of the recorder of one live session

(***************************************************************************)
(* Constants of the program.                                               *)
(***************************************************************************)
MAX_ROWS == 300
\* useTranscriptBuffer.ts:47
DefaultSystemBiasMs == 300
\* part_001:17
DashboardSystemBiasMs == 500
\* InterviewDashboard.tsx:352
DefaultVadThreshold == 6
\* part_001:17, 0.06 in hundredths

(***************************************************************************)
(* Texts.                                                                  *)
(***************************************************************************)
Speakers == {"me", "them"}

OtherSpeaker(sp) == IF sp = "me" THEN "them" ELSE "me"

Whitespace == {" ", "\t"}

Terminal == {".", "!", "?"}

IsSpace(c) == c \in Whitespace

\* String.prototype.toLowerCase on one character of the model's alphabet.
LowerChar(c) == CASE c = "A" -> "a" [] c = "B" -> "b" [] c = "H" -> "h" [] OTHER -> c

toLowerCase(s) == [i \in 1..Len(s) |-> LowerChar(s[i])]

RECURSIVE DropLeadingWs(_)
DropLeadingWs(s) ==
    IF s # <<>> /\ IsSpace(Head(s)) THEN DropLeadingWs(Tail(s)) ELSE s

RECURSIVE DropTrailingWs(_)
DropTrailingWs(s) ==
    IF s # <<>> /\ IsSpace(s[Len(s)]) THEN DropTrailingWs(SubSeq(s, 1, Len(s) - 1)) ELSE s

\* String.prototype.trim
trim(s) == DropTrailingWs(DropLeadingWs(s))

\* s.replace(/\s+/g, ' '): every maximal run of whitespace becomes one space.
RECURSIVE CollapseWs(_)
CollapseWs(s) ==
    IF s = <<>> THEN <<>>
    ELSE IF IsSpace(Head(s)) THEN <<" ">> \o CollapseWs(DropLeadingWs(s))
    ELSE <<Head(s)>> \o CollapseWs(Tail(s))

\* useTranscriptBuffer.ts:25  s.replace(/\s+/g, ' ').trim()
normalize(s) == trim(CollapseWs(s))

\* Array.prototype.join(' ') over a sequence of texts.
RECURSIVE JoinSp(_)
JoinSp(ts) ==
    IF ts = <<>> THEN <<>>
    ELSE IF Len(ts) = 1 THEN ts[1]
    ELSE ts[1] \o <<" ">> \o JoinSp(Tail(ts))

\* useTranscriptBuffer.ts:26  ws.map(w => w.text).join(' ').replace(/\s+/g, ' ').trim()
joinWords(ws) == normalize(JoinSp([i \in 1..Len(ws) |-> ws[i].text]))

\* /[.!?]$/.test(t)
EndsTerminal(t) == t # <<>> /\ t[Len(t)] \in Terminal

\* String.prototype.startsWith
startsWith(s, p) == Len(p) <= Len(s) /\ SubSeq(s, 1, Len(p)) = p

\* String.prototype.includes
includes(s, p) == \E k \in 0..(Len(s) - Len(p)) : SubSeq(s, k + 1, k + Len(p)) = p

\* Number of positions of s at which p occurs.
Occurrences(s, p) == Cardinality({k \in 0..(Len(s) - Len(p)) : SubSeq(s, k + 1, k + Len(p)) = p})

(***************************************************************************)
(* Rows and ids.  An id is the record of the parts the template string     *)
(* is built from: `${speaker}-final-${Date.now()}-${i}`, ...-tail, no      *)
(* suffix, and `${speaker}-interim`.                                       *)
(***************************************************************************)
FinalId(sp, ts, sfx, idx) == [speaker |-> sp, kind |-> "final", ts |-> ts, sfx |-> sfx, idx |-> idx]

InterimId(sp) == [speaker |-> sp, kind |-> "interim", ts |-> 0, sfx |-> "none", idx |-> 0]

Row(id, sp, text, isFinal) == [id |-> id, speaker |-> sp, text |-> text, isFinal |-> isFinal]

\* interimTextBySpeaker.current[sp]; "undefined" when the key is not set.
Undefined == <<"undefined">>

HasKey(m, sp) == \E i \in 1..Len(m) : m[i].sp = sp

GetInterim(m, sp) ==
    IF HasKey(m, sp) THEN m[CHOOSE i \in 1..Len(m) : m[i].sp = sp].txt ELSE Undefined

\* interimTextBySpeaker.current[sp] = txt: an existing key keeps its place, a new one goes last.
SetInterim(m, sp, txt) ==
    IF HasKey(m, sp)
    THEN [i \in 1..Len(m) |-> IF m[i].sp = sp THEN [sp |-> sp, txt |-> txt] ELSE m[i]]
    ELSE Append(m, [sp |-> sp, txt |-> txt])

\* The interim tail of a speaker as a text (empty when unset).
InterimTail(sp) ==
    IF HasKey(interimTextBySpeaker, sp) THEN GetInterim(interimTextBySpeaker, sp) ELSE <<>>

(***************************************************************************)
(* useTranscriptBuffer: upsertTranscript.                                  *)
(***************************************************************************)
\* A faulty variant of AcceptWords: every incoming word is appended, seen before or not.
AcceptWordsUnfiltered(confirmed, incomingWords) == confirmed \o incomingWords

\* A faulty variant of AcceptWords: the loop stops at the first word that is not newer.
AcceptWordsStopAtStale(confirmed, incomingWords) ==
    LET lastEnd == IF Len(confirmed) > 0 THEN confirmed[Len(confirmed)].endMs ELSE -1
        stale == {i \in 1..Len(incomingWords) : incomingWords[i].endMs <= lastEnd}
        upTo == IF stale = {} THEN Len(incomingWords)
                ELSE (CHOOSE i \in stale : \A j \in stale : i <= j) - 1
    IN  confirmed \o SubSeq(incomingWords, 1, upTo)

\* useTranscriptBuffer.ts:69-72.  lastEnd is read once, before the loop.
AcceptWords(confirmed, incomingWords) ==
    LET lastEnd == IF Len(confirmed) > 0 THEN confirmed[Len(confirmed)].endMs ELSE -1
    IN  confirmed \o SelectSeq(incomingWords, LAMBDA w : w.endMs > lastEnd)

\* A faulty variant of CommitSentences: the start of the sentence is not moved behind a
\* committed sentence.
RECURSIVE CommitSentencesKeepsStart(_, _, _, _, _, _)
CommitSentencesKeepsStart(confirmed, i, commitIdx, rows, sp, now) ==
    IF i >= Len(confirmed) THEN [commitIdx |-> commitIdx, rows |-> rows]
    ELSE IF EndsTerminal(confirmed[i + 1].text)
    THEN LET sentence == SubSeq(confirmed, commitIdx + 1, i + 1)
             textVal == joinWords(sentence)
             pushed == IF textVal # <<>>
                       THEN Append(rows, Row(FinalId(sp, now, "idx", i), sp, textVal, TRUE))
                       ELSE rows
         IN  CommitSentencesKeepsStart(confirmed, i + 1, commitIdx, pushed, sp, now)
    ELSE CommitSentencesKeepsStart(confirmed, i + 1, commitIdx, rows, sp, now)

\* useTranscriptBuffer.ts:75-82.  i and commitIdx are the code's 0-based indices.
RECURSIVE CommitSentences(_, _, _, _, _, _)
CommitSentences(confirmed, i, commitIdx, rows, sp, now) ==
    IF i >= Len(confirmed) THEN [commitIdx |-> commitIdx, rows |-> rows]
    ELSE IF EndsTerminal(confirmed[i + 1].text)
    THEN LET sentence == SubSeq(confirmed, commitIdx + 1, i + 1)
             textVal == joinWords(sentence)
             pushed == IF textVal # <<>>
                       THEN Append(rows, Row(FinalId(sp, now, "idx", i), sp, textVal, TRUE))
                       ELSE rows
         IN  CommitSentences(confirmed, i + 1, i + 1, pushed, sp, now)
    ELSE CommitSentences(confirmed, i + 1, commitIdx, rows, sp, now)

\* A faulty variant of CommitTail: the final packet commits the tail but the tail is not emptied,
\* so it is also published as the interim text.
CommitTailKeepsTail(confirmed, commitIdx, rows, isFinal, sp, now) ==
    LET tail == SubSeq(confirmed, commitIdx + 1, Len(confirmed))
        textVal == joinWords(tail)
    IN  IF isFinal /\ Len(tail) > 0
        THEN [commitIdx |-> Len(confirmed),
              rows |-> IF textVal # <<>>
                       THEN Append(rows, Row(FinalId(sp, now, "tail", 0), sp, textVal, TRUE))
                       ELSE rows,
              tail |-> tail]
        ELSE [commitIdx |-> commitIdx, rows |-> rows, tail |-> tail]

\* A faulty variant of CommitTail: the final packet restarts the commit index at 0.
CommitTailResetsIndex(confirmed, commitIdx, rows, isFinal, sp, now) ==
    LET tail == SubSeq(confirmed, commitIdx + 1, Len(confirmed))
        textVal == joinWords(tail)
    IN  IF isFinal /\ Len(tail) > 0
        THEN [commitIdx |-> 0,
              rows |-> IF textVal # <<>>
                       THEN Append(rows, Row(FinalId(sp, now, "tail", 0), sp, textVal, TRUE))
                       ELSE rows,
              tail |-> <<>>]
        ELSE [commitIdx |-> commitIdx, rows |-> rows, tail |-> tail]

\* A faulty variant of CommitTail: the final packet moves the commit index only when the
\* tail has text.
CommitTailSkipsBlank(confirmed, commitIdx, rows, isFinal, sp, now) ==
    LET tail == SubSeq(confirmed, commitIdx + 1, Len(confirmed))
        textVal == joinWords(tail)
    IN  IF isFinal /\ Len(tail) > 0
        THEN [commitIdx |-> IF textVal # <<>> THEN Len(confirmed) ELSE commitIdx,
              rows |-> IF textVal # <<>>
                       THEN Append(rows, Row(FinalId(sp, now, "tail", 0), sp, textVal, TRUE))
                       ELSE rows,
              tail |-> <<>>]
        ELSE [commitIdx |-> commitIdx, rows |-> rows, tail |-> tail]

\* useTranscriptBuffer.ts:86-93.  The tail after the scan; a final packet commits it.
CommitTail(confirmed, commitIdx, rows, isFinal, sp, now) ==
    LET tail == SubSeq(confirmed, commitIdx + 1, Len(confirmed))
        textVal == joinWords(tail)
    IN  IF isFinal /\ Len(tail) > 0
        THEN [commitIdx |-> Len(confirmed),
              rows |-> IF textVal # <<>>
                       THEN Append(rows, Row(FinalId(sp, now, "tail", 0), sp, textVal, TRUE))
                       ELSE rows,
              tail |-> <<>>]
        ELSE [commitIdx |-> commitIdx, rows |-> rows, tail |-> tail]

\* A faulty variant of scheduleFlush: the scheduled flag is not consulted.
scheduleFlushUnguarded ==
    scheduled' = TRUE /\ rafPending' = rafPending + 1

\* useTranscriptBuffer.ts:53-57
scheduleFlush ==
    IF scheduled
    THEN UNCHANGED <<scheduled, rafPending>>
    ELSE scheduled' = TRUE /\ rafPending' = rafPending + 1

\* useTranscriptBuffer.ts:68-97: the word-timed path.
UpsertWordTimed(sp, isFinal, incomingWords) ==
    LET confirmed == AcceptWords(confirmedBySpeaker[sp], incomingWords)
        scan == CommitSentences(confirmed, commitIdxBySpeaker[sp], commitIdxBySpeaker[sp],
                                finalRows, sp, clock)
        fin == CommitTail(confirmed, scan.commitIdx, scan.rows, isFinal, sp, clock)
    IN  /\ confirmedBySpeaker' = [confirmedBySpeaker EXCEPT ![sp] = confirmed]
        /\ commitIdxBySpeaker' = [commitIdxBySpeaker EXCEPT ![sp] = fin.commitIdx]
        /\ finalRows' = fin.rows
        /\ interimTextBySpeaker' = SetInterim(interimTextBySpeaker, sp, joinWords(fin.tail))
        /\ scheduleFlush
        /\ UNCHANGED segments

\* A faulty variant of UpsertFallback: a final empties the interim texts of all speakers.
UpsertFallbackClearsAllInterims(sp, incomingText, isFinal) ==
    /\ IF isFinal
       THEN /\ finalRows' = Append(finalRows,
                                   Row(FinalId(sp, clock, "none", 0), sp, incomingText, TRUE))
            /\ interimTextBySpeaker' =
                   [i \in 1..Len(SetInterim(interimTextBySpeaker, sp, <<>>)) |->
                       [SetInterim(interimTextBySpeaker, sp, <<>>)[i] EXCEPT !.txt = <<>>]]
       ELSE /\ finalRows' = finalRows
            /\ interimTextBySpeaker' = SetInterim(interimTextBySpeaker, sp, incomingText)
    /\ scheduleFlush
    /\ UNCHANGED <<confirmedBySpeaker, commitIdxBySpeaker, segments>>

\* A faulty variant of UpsertFallback: a final row is put in front of the log.
UpsertFallbackPrepends(sp, incomingText, isFinal) ==
    /\ IF isFinal
       THEN /\ finalRows' = <<Row(FinalId(sp, clock, "none", 0), sp, incomingText, TRUE)>>
                                \o finalRows
            /\ interimTextBySpeaker' = SetInterim(interimTextBySpeaker, sp, <<>>)
       ELSE /\ finalRows' = finalRows
            /\ interimTextBySpeaker' = SetInterim(interimTextBySpeaker, sp, incomingText)
    /\ scheduleFlush
    /\ UNCHANGED <<confirmedBySpeaker, commitIdxBySpeaker, segments>>

\* A faulty variant of UpsertFallback: an interim is appended to the interim text it finds.
UpsertFallbackAppendsInterim(sp, incomingText, isFinal) ==
    /\ IF isFinal
       THEN /\ finalRows' = Append(finalRows,
                                   Row(FinalId(sp, clock, "none", 0), sp, incomingText, TRUE))
            /\ interimTextBySpeaker' = SetInterim(interimTextBySpeaker, sp, <<>>)
       ELSE /\ finalRows' = finalRows
            /\ interimTextBySpeaker' =
                    SetInterim(interimTextBySpeaker, sp,
                               normalize(InterimTail(sp) \o <<" ">> \o incomingText))
    /\ scheduleFlush
    /\ UNCHANGED <<confirmedBySpeaker, commitIdxBySpeaker, segments>>

\* useTranscriptBuffer.ts:99-107: the fallback without word timings.
UpsertFallback(sp, incomingText, isFinal) ==
    /\ IF isFinal
       THEN /\ finalRows' = Append(finalRows,
                                   Row(FinalId(sp, clock, "none", 0), sp, incomingText, TRUE))
            /\ interimTextBySpeaker' = SetInterim(interimTextBySpeaker, sp, <<>>)
       ELSE /\ finalRows' = finalRows
            /\ interimTextBySpeaker' = SetInterim(interimTextBySpeaker, sp, incomingText)
    /\ scheduleFlush
    /\ UNCHANGED <<confirmedBySpeaker, commitIdxBySpeaker, segments>>

\* A faulty variant of upsertTranscript: the words are looked at before the text.
upsertTranscriptWordsFirst(sp, text, isFinal, hasWords, words) ==
    LET incomingText == normalize(text)
        timed == hasWords /\ Len(words) > 0
    IN  IF timed THEN UpsertWordTimed(sp, isFinal, words)
        ELSE IF incomingText = <<>> THEN UNCHANGED bufVars
        ELSE UpsertFallback(sp, incomingText, isFinal)

\* useTranscriptBuffer.ts:59-108.  hasWords is Array.isArray(words).
upsertTranscript(sp, text, isFinal, hasWords, words) ==
    LET incomingText == normalize(text)
        timed == hasWords /\ Len(words) > 0
    IN  IF incomingText = <<>> THEN UNCHANGED bufVars
        ELSE IF timed THEN UpsertWordTimed(sp, isFinal, words)
        ELSE UpsertFallback(sp, incomingText, isFinal)

(***************************************************************************)
(* useTranscriptBuffer: flush and clear.                                   *)
(***************************************************************************)
IndexOfId(rows, id) ==
    IF \E i \in 1..Len(rows) : rows[i].id = id
    THEN CHOOSE i \in 1..Len(rows) : rows[i].id = id /\ \A j \in 1..(i - 1) : rows[j].id # id
    ELSE 0

\* A faulty variant of pushOrUpdateInterim: an empty interim text gets a row as well.
pushOrUpdateInterimKeepsEmpty(rows, sp, text) ==
    LET id == InterimId(sp)
        idx == IndexOfId(rows, id)
        seg == Row(id, sp, text, FALSE)
    IN  IF idx > 0 THEN [rows EXCEPT ![idx] = seg] ELSE Append(rows, seg)

\* useTranscriptBuffer.ts:32-39
pushOrUpdateInterim(rows, sp, text) ==
    IF text = <<>> THEN rows
    ELSE LET id == InterimId(sp)
             idx == IndexOfId(rows, id)
             seg == Row(id, sp, text, FALSE)
         IN  IF idx > 0 THEN [rows EXCEPT ![idx] = seg] ELSE Append(rows, seg)

\* useTranscriptBuffer.ts:41-44: the keys in insertion order.
RECURSIVE AddInterims(_, _)
AddInterims(rows, m) ==
    IF m = <<>> THEN rows
    ELSE AddInterims(pushOrUpdateInterim(rows, m[1].sp, m[1].txt), Tail(m))

\* A faulty variant of CapRows: the cap keeps the oldest rows (rows.slice(0, MAX_ROWS)).
CapRowsKeepsOldest(rows) ==
    IF Len(rows) > MAX_ROWS THEN SubSeq(rows, 1, MAX_ROWS) ELSE rows

\* useTranscriptBuffer.ts:47-48
CapRows(rows) ==
    IF Len(rows) > MAX_ROWS THEN SubSeq(rows, Len(rows) - MAX_ROWS + 1, Len(rows)) ELSE rows

\* The rows a flush publishes from the current buffer (useTranscriptBuffer.ts:31-48).
BuildRows == CapRows(AddInterims(finalRows, interimTextBySpeaker))

\* A faulty variant of flush: the cap is applied to the log itself.
flushTruncatesLog ==
    /\ rafPending > 0
    /\ rafPending' = rafPending - 1
    /\ scheduled' = FALSE
    /\ segments' = BuildRows
    /\ finalRows' = CapRows(finalRows)
    /\ UNCHANGED <<confirmedBySpeaker, commitIdxBySpeaker, interimTextBySpeaker>>

\* A faulty variant of flush: the scheduled flag is left set.
flushLeavesScheduled ==
    /\ rafPending > 0
    /\ rafPending' = rafPending - 1
    /\ scheduled' = scheduled
    /\ segments' = BuildRows
    /\ UNCHANGED <<confirmedBySpeaker, commitIdxBySpeaker, interimTextBySpeaker, finalRows>>

\* useTranscriptBuffer.ts:28-51, run by the requestAnimationFrame callback.
flush ==
    /\ rafPending > 0
    /\ rafPending' = rafPending - 1
    /\ scheduled' = FALSE
    /\ segments' = BuildRows
    /\ UNCHANGED <<confirmedBySpeaker, commitIdxBySpeaker, interimTextBySpeaker, finalRows>>

\* A faulty variant of clear: the outstanding callback is cancelled and the flag is kept.
clearCancelsCallback ==
    /\ confirmedBySpeaker' = [sp \in Speakers |-> <<>>]
    /\ commitIdxBySpeaker' = [sp \in Speakers |-> 0]
    /\ interimTextBySpeaker' = <<>>
    /\ finalRows' = <<>>
    /\ segments' = <<>>
    /\ rafPending' = 0
    /\ UNCHANGED scheduled

\* A faulty variant of clear: the published sequence is left as it is.
clearLeavesPublished ==
    /\ confirmedBySpeaker' = [sp \in Speakers |-> <<>>]
    /\ commitIdxBySpeaker' = [sp \in Speakers |-> 0]
    /\ interimTextBySpeaker' = <<>>
    /\ finalRows' = <<>>
    /\ UNCHANGED <<segments, scheduled, rafPending>>

\* A faulty variant of clear: the commit indices are kept.
clearKeepsCommitIdx ==
    /\ confirmedBySpeaker' = [sp \in Speakers |-> <<>>]
    /\ commitIdxBySpeaker' = commitIdxBySpeaker
    /\ interimTextBySpeaker' = <<>>
    /\ finalRows' = <<>>
    /\ segments' = <<>>
    /\ UNCHANGED <<scheduled, rafPending>>

\* A faulty variant of clear: the interim texts are kept.
clearKeepsInterims ==
    /\ confirmedBySpeaker' = [sp \in Speakers |-> <<>>]
    /\ commitIdxBySpeaker' = [sp \in Speakers |-> 0]
    /\ interimTextBySpeaker' = interimTextBySpeaker
    /\ finalRows' = <<>>
    /\ segments' = <<>>
    /\ UNCHANGED <<scheduled, rafPending>>

\* useTranscriptBuffer.ts:110-116
clear ==
    /\ confirmedBySpeaker' = [sp \in Speakers |-> <<>>]
    /\ commitIdxBySpeaker' = [sp \in Speakers |-> 0]
    /\ interimTextBySpeaker' = <<>>
    /\ finalRows' = <<>>
    /\ segments' = <<>>
    /\ UNCHANGED <<scheduled, rafPending>>

(***************************************************************************)
(* The inputs of the buffer specification.                                 *)
(***************************************************************************)
\* Event texts: empty after normalisation, one word, two words with a tab to fold.
Texts == {<<" ">>, <<"a">>, <<"a", "\t", " ", "b", "?">>}

\* The text of an event that carries word timings: empty after normalisation, or not.
TimedTexts == {<<" ">>, <<"a">>}

\* Word texts: a plain word, a sentence-ending word, a whitespace-only word.
WordTexts == {<<"a">>, <<"b", "?">>, <<" ">>}

WordUnits == [text : WordTexts, startMs : {0}, endMs : 1..MaxMs]

RECURSIVE SeqsUpTo(_, _)
SeqsUpTo(S, n) ==
    IF n = 0 THEN {<<>>}
    ELSE LET shorter == SeqsUpTo(S, n - 1)
         IN  shorter \cup {Append(q, x) : q \in {r \in shorter : Len(r) = n - 1}, x \in S}

WordLists == SeqsUpTo(WordUnits, MaxWords)

\* text and words: the arguments of the upsertTranscript call, when the step made one.
NoOp == [op |-> "init", speaker |-> "none", isFinal |-> FALSE, timed |-> FALSE, noop |-> FALSE,
         text |-> <<>>, words |-> <<>>]

\* now: Date.now() at the call; sysAt: Date.now() at the latest classifySystem call (-1: none).
NoCall == [op |-> "none", isFinal |-> FALSE, hasRms |-> FALSE, rms |-> 0, elapsed |-> 0,
           active |-> FALSE, now |-> 0, sysAt |-> -1]

NoDecision == [speaker |-> "none", accept |-> FALSE]

NoScenario == [speaker |-> "none", sentence |-> <<>>, k |-> 0, done |-> FALSE,
               sawTimed |-> FALSE, sawPlain |-> FALSE]

\* The slot and the refs before the recognizer or Deepgram has delivered anything:
\* window.__micLive undefined, lastMicSnapshotRef and lastThemFinalRef null.
NoSlot == [set |-> FALSE, text |-> <<>>, isFinal |-> FALSE]

NoThemFinal == [set |-> FALSE, text |-> <<>>, at |-> 0]

NoMicLog == [results |-> 0, published |-> <<>>, delivered |-> <<>>, rejected |-> <<>>]

\* No live session has been started.
NoSession == [conn |-> "none", isOpen |-> FALSE, recorder |-> "null", keepAliveTimer |-> FALSE]

NoLiveLog == [cleanupCalled |-> FALSE, chunks |-> 0, sent |-> 0, sentAfterCleanup |-> 0]

InitLive ==
    /\ liveSession = NoSession
    /\ liveLog = NoLiveLog

InitDashboard ==
    /\ micLive = NoSlot
    /\ lastMicSnapshotRef = NoSlot
    /\ lastThemFinalRef = NoThemFinal
    /\ micLog = NoMicLog

InitBuffer ==
    /\ confirmedBySpeaker = [sp \in Speakers |-> <<>>]
    /\ commitIdxBySpeaker = [sp \in Speakers |-> 0]
    /\ interimTextBySpeaker = <<>>
    /\ finalRows = <<>>
    /\ scheduled = FALSE
    /\ rafPending = 0
    /\ segments = <<>>
    /\ lastOp = NoOp
    /\ wordOnly = [sp \in Speakers |-> TRUE]
    /\ nEvents = 0

InitAttribution ==
    /\ lastSystemTs = 0
    /\ systemBiasMs = DefaultSystemBiasMs
    /\ vadThreshold = DefaultVadThreshold
    /\ systemActive = FALSE
    /\ decision = NoDecision
    /\ lastCall = NoCall

Init ==
    /\ InitBuffer
    /\ scenario = NoScenario
    /\ InitAttribution
    /\ clock = StartClock
    /\ display = <<>>
    /\ InitDashboard
    /\ InitLive

\* The history variables of an upsertTranscript call.
UpsertHistory(sp, text, isFinal, timed, words) ==
    /\ nEvents' = nEvents + 1
    /\ lastOp' = [op |-> "upsert", speaker |-> sp, isFinal |-> isFinal, timed |-> timed,
                  noop |-> (normalize(text) = <<>>), text |-> text, words |-> words]
    /\ wordOnly' = IF normalize(text) # <<>> /\ ~timed
                   THEN [wordOnly EXCEPT ![sp] = FALSE]
                   ELSE wordOnly

\* A transcript event with word timings is delivered to the buffer.
UpsertTimed ==
    /\ nEvents < MaxEvents
    /\ \E sp \in Speakers, text \in TimedTexts, isFinal \in BOOLEAN,
          words \in WordLists \ {<<>>} :
            /\ upsertTranscript(sp, text, isFinal, TRUE, words)
            /\ UpsertHistory(sp, text, isFinal, TRUE, words)
    /\ UNCHANGED <<liveVars, dashVars, scenario, clock, attrVars, display>>

\* A transcript event without word timings (words undefined, or an empty array).
UpsertUntimed ==
    /\ nEvents < MaxEvents
    /\ \E sp \in Speakers, text \in Texts, isFinal \in BOOLEAN, hasWords \in BOOLEAN :
            /\ upsertTranscript(sp, text, isFinal, hasWords, <<>>)
            /\ UpsertHistory(sp, text, isFinal, FALSE, <<>>)
    /\ UNCHANGED <<liveVars, dashVars, scenario, clock, attrVars, display>>

\* The redraw tick runs the scheduled callback.
Flush ==
    /\ flush
    /\ lastOp' = [NoOp EXCEPT !.op = "flush"]
    /\ UNCHANGED <<liveVars, dashVars, scenario, clock, attrVars, display, wordOnly, nEvents>>

Clear ==
    /\ clear
    /\ lastOp' = [NoOp EXCEPT !.op = "clear"]
    /\ wordOnly' = [sp \in Speakers |-> TRUE]
    /\ UNCHANGED <<liveVars, dashVars, scenario, clock, attrVars, display, nEvents>>

Next == UpsertTimed \/ UpsertUntimed \/ Flush \/ Clear

Spec == Init /\ [][Next]_vars

\* The browser runs a requested animation-frame callback at the next redraw tick.
SpecF == Init /\ [][Next]_vars /\ WF_vars(Flush)

(***************************************************************************)
(* Properties of the sentence commit buffer.                               *)
(***************************************************************************)
\* The texts of the finalized rows of a speaker, in the order of the log.
RowTextsOf(rows, sp) ==
    LET mine == SelectSeq(rows, LAMBDA r : r.speaker = sp)
    IN  [i \in 1..Len(mine) |-> mine[i].text]

\* The finalized-row texts of a speaker followed by the speaker's interim tail.
EmittedPieces(sp) ==
    RowTextsOf(finalRows, sp) \o (IF InterimTail(sp) = <<>> THEN <<>> ELSE <<InterimTail(sp)>>)

TimedUpsertJustRan == lastOp.op = "upsert" /\ lastOp.timed /\ ~lastOp.noop

MutatingUpsertJustRan == lastOp.op = "upsert" /\ ~lastOp.noop

\* C1: for a speaker that has received only word-timed events, the finalized-row texts
\* joined with single spaces and followed by the interim tail equal the normalised
\* space-join of the confirmed words: no word is lost or duplicated.
C1_EmittedEqualsConfirmed ==
    \A sp \in Speakers :
        wordOnly[sp] => JoinSp(EmittedPieces(sp)) = joinWords(confirmedBySpeaker[sp])

\* A speaker with word-timed events only holds two emitted rows and a non-empty tail.
C1_Witness ==
    \E sp \in Speakers :
        /\ wordOnly[sp]
        /\ TimedUpsertJustRan
        /\ Len(RowTextsOf(finalRows, sp)) >= 2
        /\ InterimTail(sp) # <<>>
        /\ Len(confirmedBySpeaker[sp]) >= 3

\* C2: no upsertTranscript call, word-timed or fallback, of either speaker, lowers the
\* commit index of any speaker.
C2_CommitIndexMonotonic ==
    [][lastOp'.op = "upsert" =>
        \A sp \in Speakers : commitIdxBySpeaker'[sp] >= commitIdxBySpeaker[sp]]_vars

\* Both speakers have advanced their commit index, one of them by the call just made.
C2_Witness ==
    /\ lastOp.op = "upsert"
    /\ nEvents = MaxEvents
    /\ \A sp \in Speakers : commitIdxBySpeaker[sp] > 0

\* C3: the confirmed words of every speaker are strictly increasing in endMs.
C3_ConfirmedStrictlyIncreasing ==
    \A sp \in Speakers :
        \A i, j \in 1..Len(confirmedBySpeaker[sp]) :
            i < j => confirmedBySpeaker[sp][i].endMs < confirmedBySpeaker[sp][j].endMs

(***************************************************************************)
(* Properties of single upsertTranscript calls.                            *)
(***************************************************************************)
\* The log before the step is a prefix of the log after it.
LogExtended ==
    /\ Len(finalRows') >= Len(finalRows)
    /\ SubSeq(finalRows', 1, Len(finalRows)) = finalRows

\* C18: an upsertTranscript call whose text is empty after normalisation, with or without a
\* words array, changes nothing: not the log, the confirmed words, the commit indices, the
\* interim texts, the published sequence, nor the scheduled flag and the pending callbacks.
C18_EmptyTextIsNoOp ==
    [][(lastOp'.op = "upsert" /\ normalize(lastOp'.text) = <<>>) => UNCHANGED bufVars]_vars

\* A call with whitespace-only text and a non-empty words array arrived after a final was
\* published, and no flush is scheduled.
C18_Witness ==
    /\ lastOp.op = "upsert" /\ normalize(lastOp.text) = <<>>
    /\ lastOp.words # <<>>
    /\ finalRows # <<>> /\ segments = finalRows
    /\ \A sp \in Speakers : confirmedBySpeaker[sp] = <<>>
    /\ ~scheduled /\ rafPending = 0

\* C19: a word-timed event appends to the speaker's confirmed words exactly the words of
\* the event whose endMs exceeds the endMs of the word that was last confirmed when the
\* event arrived, in the order of the event; the words confirmed before and the rows
\* emitted before are unchanged.
C19_StaleWordsDroppedIndividually ==
    [][(lastOp'.op = "upsert" /\ lastOp'.timed /\ ~lastOp'.noop) =>
        LET sp == lastOp'.speaker
            old == confirmedBySpeaker[sp]
            new == confirmedBySpeaker'[sp]
            ws == lastOp'.words
            lastEnd == IF old = <<>> THEN -1 ELSE old[Len(old)].endMs
            keptAt == {i \in 1..Len(ws) : ws[i].endMs > lastEnd}
        IN  /\ Len(new) = Len(old) + Cardinality(keptAt)
            /\ SubSeq(new, 1, Len(old)) = old
            /\ \A i \in keptAt :
                    new[Len(old) + Cardinality({j \in keptAt : j <= i})] = ws[i]
            /\ LogExtended]_vars

\* The second event of a speaker carried a word that was not newer, which was dropped,
\* followed by a newer word, which was appended.
C19_Witness ==
    /\ lastOp.op = "upsert" /\ lastOp.timed /\ ~lastOp.noop
    /\ nEvents = MaxEvents
    /\ Len(lastOp.words) = 2
    /\ lastOp.words[1].endMs = 1 /\ lastOp.words[2].endMs = 2
    /\ LET c == confirmedBySpeaker[lastOp.speaker]
       IN  /\ Len(c) = 2
           /\ c[1].endMs = 1 /\ c[1].text # lastOp.words[1].text
           /\ c[2] = lastOp.words[2]

\* C20: a call without word timings and with non-empty normalised text appends, when
\* final, exactly one row of the speaker whose text is the normalised text and leaves the
\* speaker's interim text empty; when interim, it appends no row and leaves the speaker's
\* interim text equal to the normalised text, whatever it was before.
C20_FallbackPath ==
    [][(lastOp'.op = "upsert" /\ ~lastOp'.timed /\ ~lastOp'.noop) =>
        LET sp == lastOp'.speaker
            t == normalize(lastOp'.text)
        IN  IF lastOp'.isFinal
            THEN /\ Len(finalRows') = Len(finalRows) + 1
                 /\ LogExtended
                 /\ finalRows'[Len(finalRows')].speaker = sp
                 /\ finalRows'[Len(finalRows')].text = t
                 /\ finalRows'[Len(finalRows')].isFinal
                 /\ GetInterim(interimTextBySpeaker', sp) = <<>>
            ELSE /\ finalRows' = finalRows
                 /\ GetInterim(interimTextBySpeaker', sp) = t]_vars

\* An interim whose text needed folding replaced a different interim text of the speaker,
\* which a flush had published.
C20_Witness ==
    /\ lastOp.op = "upsert" /\ ~lastOp.timed /\ ~lastOp.noop /\ ~lastOp.isFinal
    /\ nEvents = MaxEvents
    /\ lastOp.text # normalize(lastOp.text)
    /\ InterimTail(lastOp.speaker) = normalize(lastOp.text)
    /\ segments # <<>> /\ segments[Len(segments)].id = InterimId(lastOp.speaker)
    /\ segments[Len(segments)].text # InterimTail(lastOp.speaker)

(***************************************************************************)
(* Properties of the log and of the commit index.                          *)
(***************************************************************************)
\* C21: every upsertTranscript call and every flush leaves the rows of the log where and
\* as they are and adds rows only at the end; only clear removes rows.
C21_LogAppendOnly ==
    [][lastOp'.op \in {"upsert", "flush"} => LogExtended]_vars

\* The second event appended rows of its speaker behind those of the other speaker.
C21_Witness ==
    /\ MutatingUpsertJustRan
    /\ nEvents = MaxEvents
    /\ Len(finalRows) >= 3
    /\ finalRows[1].speaker # lastOp.speaker
    /\ finalRows[Len(finalRows)].speaker = lastOp.speaker

\* C23: the commit index of every speaker lies between 0 and the number of the speaker's
\* confirmed words.
C23_CommitIndexInRange ==
    \A sp \in Speakers :
        0 <= commitIdxBySpeaker[sp] /\ commitIdxBySpeaker[sp] <= Len(confirmedBySpeaker[sp])

\* One speaker has committed one of two words, the other both of its two words.
C23_Witness ==
    \E sp \in Speakers :
        /\ commitIdxBySpeaker[sp] = 1 /\ Len(confirmedBySpeaker[sp]) = 2
        /\ commitIdxBySpeaker[OtherSpeaker(sp)] = 2
        /\ Len(confirmedBySpeaker[OtherSpeaker(sp)]) = 2

\* The confirmed words of sp from the commit index on.
UncommittedWords(sp) ==
    SubSeq(confirmedBySpeaker[sp], commitIdxBySpeaker[sp] + 1, Len(confirmedBySpeaker[sp]))

\* C25: after an accepted word-timed event of speaker S the interim text of S is the join of
\* the confirmed words of S from the commit index on; after a final one the commit index is
\* the number of confirmed words and the interim text is empty.
C25_TailFromCommitIndex ==
    TimedUpsertJustRan =>
        LET sp == lastOp.speaker
        IN  /\ HasKey(interimTextBySpeaker, sp)
            /\ InterimTail(sp) = joinWords(UncommittedWords(sp))
            /\ lastOp.isFinal =>
                   /\ commitIdxBySpeaker[sp] = Len(confirmedBySpeaker[sp])
                   /\ InterimTail(sp) = <<>>

\* A final word-timed event none of whose words was accepted: the speaker's confirmed words
\* are all different from the words of the event.
C25_Witness ==
    /\ TimedUpsertJustRan
    /\ lastOp.isFinal
    /\ Len(confirmedBySpeaker[lastOp.speaker]) > 0
    /\ \A i \in 1..Len(confirmedBySpeaker[lastOp.speaker]), j \in 1..Len(lastOp.words) :
           confirmedBySpeaker[lastOp.speaker][i] # lastOp.words[j]
    /\ commitIdxBySpeaker[lastOp.speaker] = Len(confirmedBySpeaker[lastOp.speaker])
    /\ InterimTail(lastOp.speaker) = <<>>

\* C26: delivering the same word-timed event twice in succession changes nothing the second
\* time: no confirmed word, no row, the commit index and the interim text as they were.
C26_RedeliveryIdempotent ==
    [][(TimedUpsertJustRan /\ lastOp' = lastOp)
          => UNCHANGED <<confirmedBySpeaker, commitIdxBySpeaker, interimTextBySpeaker,
                         finalRows>>]_vars

\* C27: after an accepted final event of speaker S, on either path, S has no uncommitted
\* text: the interim text is empty and the commit index is the number of confirmed words.
C27_FinalLeavesNothingUncommitted ==
    (MutatingUpsertJustRan /\ lastOp.isFinal) =>
        /\ InterimTail(lastOp.speaker) = <<>>
        /\ commitIdxBySpeaker[lastOp.speaker] = Len(confirmedBySpeaker[lastOp.speaker])

\* The number of words of a normalised text that end in terminal punctuation.
TerminalWords(t) ==
    Cardinality({i \in 1..Len(t) : t[i] \in Terminal /\ (i = Len(t) \/ IsSpace(t[i + 1]))})

\* The rows the sentence scan has emitted.
ScanRows == SelectSeq(finalRows, LAMBDA r : r.id.sfx = "idx")

\* C28: after an accepted word-timed event of speaker S no confirmed word of S from the
\* commit index on ends in terminal punctuation, and every row of the sentence scan ends
\* with a terminal-punctuated word and holds no other such word.
C28_OneSentencePerRow ==
    /\ TimedUpsertJustRan =>
           \A i \in 1..Len(UncommittedWords(lastOp.speaker)) :
               ~EndsTerminal(UncommittedWords(lastOp.speaker)[i].text)
    /\ \A k \in 1..Len(ScanRows) :
           /\ EndsTerminal(ScanRows[k].text)
           /\ TerminalWords(ScanRows[k].text) = 1

\* One event of two sentences has emitted two scan rows.
C28_Witness ==
    /\ TimedUpsertJustRan
    /\ nEvents = 1
    /\ Len(lastOp.words) = 2
    /\ Len(ScanRows) = 2
    /\ commitIdxBySpeaker[lastOp.speaker] = 2

\* The rows of a speaker in a log, in the log's order.
RowsOf(rows, sp) == SelectSeq(rows, LAMBDA r : r.speaker = sp)

\* C29: an upsertTranscript call of speaker S leaves the confirmed words, the commit index
\* and the interim text of the other speaker as they are, and the other speaker's rows in
\* the log are the same rows in the same order.
C29_OtherSpeakerUntouched ==
    [][\A sp \in Speakers : (lastOp'.op = "upsert" /\ lastOp'.speaker = sp) =>
        LET other == OtherSpeaker(sp)
        IN  /\ confirmedBySpeaker'[other] = confirmedBySpeaker[other]
            /\ commitIdxBySpeaker'[other] = commitIdxBySpeaker[other]
            /\ HasKey(interimTextBySpeaker', other) = HasKey(interimTextBySpeaker, other)
            /\ InterimTail(other)' = InterimTail(other)
            /\ RowsOf(finalRows', other) = RowsOf(finalRows, other)]_vars

\* The second event is of one speaker while the other holds a row, a tail and two
\* confirmed words.
C29_Witness ==
    /\ MutatingUpsertJustRan
    /\ nEvents = MaxEvents
    /\ Len(RowsOf(finalRows, lastOp.speaker)) > 0
    /\ Len(RowsOf(finalRows, OtherSpeaker(lastOp.speaker))) > 0
    /\ InterimTail(OtherSpeaker(lastOp.speaker)) # <<>>
    /\ Len(confirmedBySpeaker[OtherSpeaker(lastOp.speaker)]) = 2
    /\ commitIdxBySpeaker[OtherSpeaker(lastOp.speaker)] = 1

\* C35: the rows of the finalized-row log have pairwise distinct ids, also when several
\* final events of one speaker are processed in the same millisecond.
C35_DistinctIds ==
    \A i, j \in 1..Len(finalRows) : i # j => finalRows[i].id # finalRows[j].id

(***************************************************************************)
(* createAudioAttribution (src/unnamed/part_001).  Energies and the VAD    *)
(* threshold are in hundredths: 0.06 is 6.  An rms argument is the record  *)
(* of its JavaScript type and, for a finite number, its value.             *)
(***************************************************************************)
BiasOptions == {DefaultSystemBiasMs, DashboardSystemBiasMs}

RmsNumbers == {0, 5, 6, 7, 10}

RmsValues ==
    [kind : {"number"}, val : RmsNumbers]
        \cup [kind : {"undefined", "null", "NaN", "Infinity"}, val : {0}]

\* part_001:39  typeof rms === 'number' && Number.isFinite(rms)
HasRms(rms) == rms.kind = "number"

\* A faulty variant of classifyMic: the isSystemActive() early return is missing.
classifyMicAlwaysGated(isFinal, rms) ==
    LET hasRms == HasRms(rms)
        energy == rms.val
        elapsed == clock - lastSystemTs
    IN  IF isFinal
        THEN IF hasRms THEN [speaker |-> "me", accept |-> energy >= vadThreshold]
             ELSE IF elapsed <= systemBiasMs THEN [speaker |-> "me", accept |-> FALSE]
             ELSE [speaker |-> "me", accept |-> TRUE]
        ELSE IF ~hasRms THEN [speaker |-> "me", accept |-> FALSE]
        ELSE IF elapsed <= systemBiasMs THEN [speaker |-> "me", accept |-> FALSE]
        ELSE [speaker |-> "me", accept |-> energy >= vadThreshold]

\* A faulty variant of classifyMic: a final with energy is also held back inside the bias window.
classifyMicFinalBiased(isFinal, rms) ==
    LET hasRms == HasRms(rms)
        energy == rms.val
        elapsed == clock - lastSystemTs
    IN  IF ~systemActive THEN [speaker |-> "me", accept |-> TRUE]
        ELSE IF isFinal
        THEN IF elapsed <= systemBiasMs THEN [speaker |-> "me", accept |-> FALSE]
             ELSE IF hasRms THEN [speaker |-> "me", accept |-> energy >= vadThreshold]
             ELSE [speaker |-> "me", accept |-> TRUE]
        ELSE IF ~hasRms THEN [speaker |-> "me", accept |-> FALSE]
        ELSE IF elapsed <= systemBiasMs THEN [speaker |-> "me", accept |-> FALSE]
        ELSE [speaker |-> "me", accept |-> energy >= vadThreshold]

\* A faulty variant of classifyMic: the bias window of a final without energy excludes its boundary.
classifyMicStrictWindow(isFinal, rms) ==
    LET hasRms == HasRms(rms)
        energy == rms.val
        elapsed == clock - lastSystemTs
    IN  IF ~systemActive THEN [speaker |-> "me", accept |-> TRUE]
        ELSE IF isFinal
        THEN IF hasRms THEN [speaker |-> "me", accept |-> energy >= vadThreshold]
             ELSE IF elapsed < systemBiasMs THEN [speaker |-> "me", accept |-> FALSE]
             ELSE [speaker |-> "me", accept |-> TRUE]
        ELSE IF ~hasRms THEN [speaker |-> "me", accept |-> FALSE]
        ELSE IF elapsed <= systemBiasMs THEN [speaker |-> "me", accept |-> FALSE]
        ELSE [speaker |-> "me", accept |-> energy >= vadThreshold]

\* A faulty variant of classifyMic: an interim without energy is treated like a final without energy.
classifyMicInterimNoVad(isFinal, rms) ==
    LET hasRms == HasRms(rms)
        energy == rms.val
        elapsed == clock - lastSystemTs
    IN  IF ~systemActive THEN [speaker |-> "me", accept |-> TRUE]
        ELSE IF hasRms /\ isFinal THEN [speaker |-> "me", accept |-> energy >= vadThreshold]
        ELSE IF elapsed <= systemBiasMs THEN [speaker |-> "me", accept |-> FALSE]
        ELSE IF ~hasRms THEN [speaker |-> "me", accept |-> TRUE]
        ELSE [speaker |-> "me", accept |-> energy >= vadThreshold]

\* part_001:31-57
classifyMic(isFinal, rms) ==
    LET hasRms == HasRms(rms)
        energy == rms.val
        elapsed == clock - lastSystemTs
    IN  IF ~systemActive THEN [speaker |-> "me", accept |-> TRUE]
        ELSE IF isFinal
        THEN IF hasRms THEN [speaker |-> "me", accept |-> energy >= vadThreshold]
             ELSE IF elapsed <= systemBiasMs THEN [speaker |-> "me", accept |-> FALSE]
             ELSE [speaker |-> "me", accept |-> TRUE]
        ELSE IF ~hasRms THEN [speaker |-> "me", accept |-> FALSE]
        ELSE IF elapsed <= systemBiasMs THEN [speaker |-> "me", accept |-> FALSE]
        ELSE [speaker |-> "me", accept |-> energy >= vadThreshold]

\* A faulty variant of classifySystem: only the first system event is recorded.
classifySystemKeepsFirst ==
    /\ lastSystemTs' = IF lastSystemTs = 0 THEN clock ELSE lastSystemTs
    /\ decision' = [speaker |-> "them", accept |-> TRUE]

\* part_001:22-29: recordSystemEvent, then the decision.
classifySystem ==
    /\ lastSystemTs' = clock
    /\ decision' = [speaker |-> "them", accept |-> TRUE]

\* createAudioAttribution is constructed with the default or the dashboard's bias window.
InitAttributionOptions ==
    /\ lastSystemTs = 0
    /\ systemBiasMs \in BiasOptions
    /\ vadThreshold = DefaultVadThreshold
    /\ systemActive = FALSE
    /\ decision = NoDecision
    /\ lastCall = NoCall

InitA ==
    /\ InitBuffer
    /\ scenario = NoScenario
    /\ InitAttributionOptions
    /\ clock = StartClock
    /\ display = <<>>
    /\ InitDashboard
    /\ InitLive

\* A microphone event is classified.
ClassifyMicCall ==
    /\ \E isFinal \in BOOLEAN, rms \in RmsValues :
        /\ decision' = classifyMic(isFinal, rms)
        /\ lastCall' = [op |-> "mic", isFinal |-> isFinal, hasRms |-> HasRms(rms),
                        rms |-> rms.val, elapsed |-> clock - lastSystemTs,
                        active |-> systemActive, now |-> clock, sysAt |-> lastCall.sysAt]
    /\ UNCHANGED <<lastSystemTs, systemBiasMs, vadThreshold, systemActive>>
    /\ UNCHANGED <<liveVars, dashVars, scenario, bufVars, clock, display, lastOp, wordOnly, nEvents>>

\* A system transcript is classified.
ClassifySystemCall ==
    /\ classifySystem
    /\ lastCall' = [NoCall EXCEPT !.op = "system", !.active = systemActive,
                                  !.now = clock, !.sysAt = clock]
    /\ UNCHANGED <<systemBiasMs, vadThreshold, systemActive>>
    /\ UNCHANGED <<liveVars, dashVars, scenario, bufVars, clock, display, lastOp, wordOnly, nEvents>>

\* The user starts or stops sharing system audio: isSystemActive() changes.
ToggleSystem ==
    /\ systemActive' = ~systemActive
    /\ UNCHANGED <<lastSystemTs, systemBiasMs, vadThreshold, decision, lastCall>>
    /\ UNCHANGED <<liveVars, dashVars, scenario, bufVars, clock, display, lastOp, wordOnly, nEvents>>

\* Date.now() advances by a step around the bias window.
Elapse ==
    /\ \E d \in {systemBiasMs - 1, systemBiasMs, systemBiasMs + 1} :
        /\ clock + d <= StartClock + MaxTick * (systemBiasMs + 1)
        /\ clock' = clock + d
    /\ UNCHANGED <<liveVars, dashVars, scenario, bufVars, attrVars, display, lastOp, wordOnly, nEvents>>

NextA == ClassifyMicCall \/ ClassifySystemCall \/ ToggleSystem \/ Elapse

SpecA == InitA /\ [][NextA]_vars

(***************************************************************************)
(* Properties of classifyMic.                                              *)
(***************************************************************************)
MicCall == lastCall.op = "mic"

\* C7: with the system source inactive, classifyMic accepts as "me" whatever isFinal,
\* the energy (a number, undefined, null, not finite) and the elapsed time are.
C7_InactiveAlwaysAccepts ==
    (MicCall /\ ~lastCall.active) => decision = [speaker |-> "me", accept |-> TRUE]

\* An interim without energy inside the bias window is accepted while nothing is shared.
C7_Witness ==
    /\ MicCall /\ ~lastCall.active
    /\ ~lastCall.isFinal /\ ~lastCall.hasRms
    /\ lastCall.elapsed <= systemBiasMs
    /\ decision.accept

\* C8: with the system source active, a final with energy is accepted exactly when the
\* energy reaches the threshold, whatever the elapsed time is.
C8_FinalWithEnergy ==
    (MicCall /\ lastCall.active /\ lastCall.isFinal /\ lastCall.hasRms)
        => /\ decision.speaker = "me"
           /\ decision.accept <=> (lastCall.rms >= vadThreshold)

\* A final with energy 0.10 is accepted inside the bias window.
C8_Witness ==
    /\ MicCall /\ lastCall.active /\ lastCall.isFinal /\ lastCall.hasRms
    /\ lastCall.rms = 10
    /\ lastCall.elapsed <= systemBiasMs
    /\ decision.accept

\* C9: with the system source active, a final without energy is rejected exactly when
\* elapsed <= systemBiasMs.
C9_FinalWithoutEnergy ==
    (MicCall /\ lastCall.active /\ lastCall.isFinal /\ ~lastCall.hasRms)
        => /\ decision.speaker = "me"
           /\ ~decision.accept <=> (lastCall.elapsed <= systemBiasMs)

\* A final without energy exactly at the boundary of the bias window is rejected.
C9_Witness ==
    /\ MicCall /\ lastCall.active /\ lastCall.isFinal /\ ~lastCall.hasRms
    /\ lastCall.elapsed = systemBiasMs
    /\ ~decision.accept

\* C10: with the system source active, an interim is accepted exactly when it has energy,
\* elapsed > systemBiasMs and the energy reaches the threshold.
C10_Interim ==
    (MicCall /\ lastCall.active /\ ~lastCall.isFinal)
        => /\ decision.speaker = "me"
           /\ decision.accept <=> /\ lastCall.hasRms
                                  /\ lastCall.elapsed > systemBiasMs
                                  /\ lastCall.rms >= vadThreshold

\* An interim without energy is rejected outside the bias window.
C10_Witness ==
    /\ MicCall /\ lastCall.active /\ ~lastCall.isFinal /\ ~lastCall.hasRms
    /\ lastCall.elapsed > systemBiasMs
    /\ ~decision.accept

\* C11: classifySystem returns {speaker: them, accept: true} and records the current time;
\* an interim mic event classified, while the system source is active, no more than
\* systemBiasMs after the latest classifySystem call is rejected whatever its energy.
C11_SystemCallOpensWindow ==
    /\ lastCall.op = "system"
         => decision = [speaker |-> "them", accept |-> TRUE] /\ lastSystemTs = lastCall.now
    /\ (MicCall /\ lastCall.active /\ ~lastCall.isFinal /\ lastCall.sysAt >= 0
            /\ lastCall.now - lastCall.sysAt <= systemBiasMs)
         => decision = [speaker |-> "me", accept |-> FALSE]

\* A loud interim is rejected at the boundary of the window opened by a classifySystem
\* call that was not the first one.
C11_Witness ==
    /\ MicCall /\ lastCall.active /\ ~lastCall.isFinal
    /\ lastCall.hasRms /\ lastCall.rms = 10
    /\ lastCall.sysAt > StartClock
    /\ lastCall.now - lastCall.sysAt = systemBiasMs
    /\ ~decision.accept

(***************************************************************************)
(* LiveTranscript (src/src/components/LiveTranscript.tsx): the render of   *)
(* the published segments.                                                 *)
(***************************************************************************)
DisplayRow(key, sp, text, interim) ==
    [key |-> key, speaker |-> sp, text |-> text, interim |-> interim]

\* A faulty variant of MergeSegment: the texts are compared with their case.
MergeSegmentCaseSensitive(rows, s) ==
    LET incoming == normalize(s.text)
        n == Len(rows)
    IN  IF n > 0 /\ rows[n].speaker = s.speaker
        THEN LET prev == rows[n].text
                 merged == IF startsWith(incoming, prev) \/ includes(incoming, prev)
                           THEN incoming
                           ELSE IF includes(prev, incoming) THEN prev
                           ELSE normalize(prev \o <<" ">> \o incoming)
             IN  [rows EXCEPT ![n].text = merged]
        ELSE Append(rows, DisplayRow(s.id, s.speaker, incoming, Undefined))

\* LiveTranscript.tsx:28-41: one finalized segment s is merged into the rows built so far.
MergeSegment(rows, s) ==
    LET incoming == normalize(s.text)
        incomingCmp == toLowerCase(incoming)
        n == Len(rows)
    IN  IF n > 0 /\ rows[n].speaker = s.speaker
        THEN LET prev == rows[n].text
                 prevCmp == toLowerCase(prev)
                 merged == IF startsWith(incomingCmp, prevCmp) \/ includes(incomingCmp, prevCmp)
                           THEN incoming
                           ELSE IF includes(prevCmp, incomingCmp) THEN prev
                           ELSE normalize(prev \o <<" ">> \o incoming)
             IN  [rows EXCEPT ![n].text = merged]
        ELSE Append(rows, DisplayRow(s.id, s.speaker, incoming, Undefined))

\* LiveTranscript.tsx:23-42: the loop over the finalized segments fs[lo..hi], in order.  The
\* range is split in halves, and the comparison has the rows of the first half computed
\* before the second half starts, so that the evaluation of a long sequence nests only a
\* few calls; the segments are merged one by one from left to right all the same.
RECURSIVE MergeRange(_, _, _, _)
MergeRange(rows, fs, lo, hi) ==
    IF lo > hi THEN rows
    ELSE IF lo = hi THEN MergeSegment(rows, fs[lo])
    ELSE LET mid == (lo + hi) \div 2
             left == MergeRange(rows, fs, lo, mid)
         IN  IF left = left THEN MergeRange(left, fs, mid + 1, hi) ELSE left

\* LiveTranscript.tsx:22-42: interim segments are skipped (l.24).
FinalizedRowsFrom(rows, segs) ==
    LET fs == SelectSeq(segs, LAMBDA x : x.isFinal)
    IN  MergeRange(rows, fs, 1, Len(fs))

finalizedRows(segs) == FinalizedRowsFrom(<<>>, segs)

\* The largest index of an interim segment of a speaker in `who`, or 0.
LastInterimIndex(segs, who) ==
    LET hits == {i \in 1..Len(segs) : ~segs[i].isFinal /\ segs[i].speaker \in who}
    IN  IF hits = {} THEN 0 ELSE CHOOSE i \in hits : \A j \in hits : j <= i

\* LiveTranscript.tsx:45-63: the index in segs of the interim shown (0: none), 'me' first.
InterimIndex(segs) ==
    LET mine == LastInterimIndex(segs, {"me"})
    IN  IF mine > 0 THEN mine ELSE LastInterimIndex(segs, Speakers)

\* LiveTranscript.tsx:75-78: the index of the latest row of the speaker, or 0.
LatestRowOf(rows, sp) ==
    LET hits == {i \in 1..Len(rows) : rows[i].speaker = sp}
    IN  IF hits = {} THEN 0 ELSE CHOOSE i \in hits : \A j \in hits : j <= i

\* A faulty variant of displayRows: the interim always gets a row of its own.
displayRowsAlwaysStandalone(segs) ==
    LET rows == finalizedRows(segs)
        k == InterimIndex(segs)
    IN  IF k = 0 THEN rows
        ELSE Append(rows, DisplayRow(segs[k].id, segs[k].speaker, <<>>, segs[k].text))

\* LiveTranscript.tsx:71-86
displayRows(segs) ==
    LET rows == finalizedRows(segs)
        k == InterimIndex(segs)
    IN  IF k = 0 THEN rows
        ELSE LET idx == LatestRowOf(rows, segs[k].speaker)
             IN  IF idx > 0 THEN [rows EXCEPT ![idx].interim = segs[k].text]
                 ELSE Append(rows, DisplayRow(segs[k].id, segs[k].speaker, <<>>, segs[k].text))

(***************************************************************************)
(* The render specification: LiveTranscript applied to published           *)
(* sequences.  A published sequence is what flush builds from fallback     *)
(* finals delivered one per millisecond, followed by the interim rows.     *)
(***************************************************************************)
RenderTexts == {<<"a">>, <<"b">>, <<"a", " ", "b">>, <<"A", " ", "b">>}

InterimTexts == {<<"c">>}

FinalLogs ==
    LET shapes == SeqsUpTo(Speakers \X RenderTexts, MaxSegs)
    IN  {[i \in 1..Len(q) |->
            Row(FinalId(q[i][1], StartClock + i, "none", 0), q[i][1], q[i][2], TRUE)] :
         q \in shapes}

InterimRows ==
    LET orders == {<<>>, <<"me">>, <<"them">>, <<"me", "them">>, <<"them", "me">>}
    IN  UNION {{[i \in 1..Len(o) |-> Row(InterimId(o[i]), o[i], t, FALSE)] : t \in InterimTexts} :
               o \in orders}

\* The buffer as it stands after the fallback events that built a published sequence.
InitR ==
    /\ \E f \in FinalLogs, it \in InterimRows :
        /\ finalRows = f
        /\ interimTextBySpeaker = [i \in 1..Len(it) |-> [sp |-> it[i].speaker, txt |-> it[i].text]]
    /\ segments = BuildRows
    /\ confirmedBySpeaker = [sp \in Speakers |-> <<>>]
    /\ commitIdxBySpeaker = [sp \in Speakers |-> 0]
    /\ scheduled = FALSE
    /\ rafPending = 0
    /\ lastOp = [NoOp EXCEPT !.op = "flush"]
    /\ scenario = NoScenario
    /\ wordOnly = [sp \in Speakers |-> FALSE]
    /\ nEvents = 0
    /\ InitAttribution
    /\ clock = StartClock + MaxSegs
    /\ display = <<>>
    /\ InitDashboard
    /\ InitLive

\* React renders LiveTranscript with the published segments.
Render ==
    /\ display' = displayRows(segments)
    /\ lastOp' = [NoOp EXCEPT !.op = "render"]
    /\ UNCHANGED <<liveVars, dashVars, scenario, bufVars, attrVars, clock, wordOnly, nEvents>>

NextR == Render

SpecR == InitR /\ [][NextR]_vars

(***************************************************************************)
(* Properties of the render.                                               *)
(***************************************************************************)
FinalSegments == SelectSeq(segments, LAMBDA r : r.isFinal)

\* The index of the display row that holds the i-th finalized segment: one row per
\* maximal run of consecutive finalized segments of one speaker.
RunIndex(fs, i) == 1 + Cardinality({j \in 2..i : fs[j].speaker # fs[j - 1].speaker})

\* Row B = fs[i + 1] directly follows row A = fs[i], same speaker, and the normalised text
\* of B has that of A as a case-insensitive prefix.
ExtendsPrevious(fs, i) ==
    /\ fs[i].speaker = fs[i + 1].speaker
    /\ startsWith(toLowerCase(normalize(fs[i + 1].text)), toLowerCase(normalize(fs[i].text)))

\* The paragraph of B holds B's text once and does not hold A's text followed by B's.
AbsorbedOnce(fs, i) ==
    LET para == toLowerCase(display[RunIndex(fs, i + 1)].text)
        a == toLowerCase(normalize(fs[i].text))
        b == toLowerCase(normalize(fs[i + 1].text))
    IN  /\ Occurrences(para, b) = 1
        /\ ~includes(para, a \o <<" ">> \o b)

\* C4: whenever a finalized row B directly follows a same-speaker row A whose normalised
\* text is a case-insensitive prefix of B's, the rendered display holds B's text exactly
\* once and never A's text followed by B's, whatever rows precede A.
C4_ExtensionAbsorbed ==
    lastOp.op = "render" =>
        \A i \in 1..(Len(FinalSegments) - 1) :
            ExtendsPrevious(FinalSegments, i) => AbsorbedOnce(FinalSegments, i)

\* The coalescing rule as stated for a paragraph text A and the text B of the next row.
StatedMerge(A, B) ==
    LET a == toLowerCase(normalize(A))
        b == toLowerCase(normalize(B))
    IN  IF includes(b, a) THEN normalize(B)
        ELSE IF includes(a, b) THEN A
        ELSE normalize(A \o <<" ">> \o B)

\* The paragraphs (speaker and text) the stated rule builds from the first k rows of fs.
RECURSIVE StatedParagraphs(_, _)
StatedParagraphs(fs, k) ==
    IF k = 0 THEN <<>>
    ELSE LET before == StatedParagraphs(fs, k - 1)
             n == Len(before)
         IN  IF n > 0 /\ before[n].speaker = fs[k].speaker
             THEN [before EXCEPT ![n].text = StatedMerge(before[n].text, fs[k].text)]
             ELSE Append(before, [speaker |-> fs[k].speaker, text |-> normalize(fs[k].text)])

\* The paragraphs of the display: its rows that hold finalized text.
DisplayParagraphs ==
    LET paras == SelectSeq(display, LAMBDA r : r.text # <<>>)
    IN  [i \in 1..Len(paras) |-> [speaker |-> paras[i].speaker, text |-> paras[i].text]]

\* C22: the display coalesces a paragraph A with the next finalized row B of the same
\* speaker, comparing the normalised texts without case: B's text if B contains A, else A
\* if A contains B, else A and B joined by a space; rows of different speakers start a new
\* paragraph.
C22_CoalescingRule ==
    lastOp.op = "render" =>
        DisplayParagraphs = StatedParagraphs(FinalSegments, Len(FinalSegments))

\* Two rows of one speaker, the second holding the first in another case, are one paragraph
\* with the second row's text, and the row of the other speaker is a paragraph of its own.
C22_Witness ==
    /\ lastOp.op = "render"
    /\ Len(FinalSegments) = 3
    /\ FinalSegments[1].text = <<"a">>
    /\ FinalSegments[2].text = <<"A", " ", "b">>
    /\ FinalSegments[1].speaker = FinalSegments[2].speaker
    /\ FinalSegments[3].speaker # FinalSegments[2].speaker
    /\ Len(DisplayParagraphs) = 2
    /\ DisplayParagraphs[1].text = <<"A", " ", "b">>

\* The positions in fs at which a maximal run of rows of one speaker starts.
RunStarts(fs) == {i \in 1..Len(fs) : i = 1 \/ fs[i].speaker # fs[i - 1].speaker}

\* The display rows without finalized text: standalone interim rows.
StandalonePositions == {i \in 1..Len(display) : display[i].text = <<>>}

\* C36: in the rendered display no two adjacent rows are of the same speaker; every maximal
\* run of finalized rows of one speaker is one display row with the key of the run's first
\* row; a standalone interim row exists only for a speaker without any other display row.
C36_OneRowPerRun ==
    lastOp.op = "render" =>
        /\ \A i \in 1..(Len(display) - 1) : display[i].speaker # display[i + 1].speaker
        /\ Len(display) - Cardinality(StandalonePositions)
              = Cardinality(RunStarts(FinalSegments))
        /\ \A i \in RunStarts(FinalSegments) :
               /\ display[RunIndex(FinalSegments, i)].key = FinalSegments[i].id
               /\ display[RunIndex(FinalSegments, i)].speaker = FinalSegments[i].speaker
               /\ display[RunIndex(FinalSegments, i)].text # <<>>
        /\ \A i \in StandalonePositions :
               /\ display[i].interim # Undefined
               /\ \A j \in 1..Len(display) : j # i => display[j].speaker # display[i].speaker

\* Two rows of one speaker are one display row, and the interim of the other speaker, who
\* has no finalized row, is a standalone row behind it.
C36_Witness ==
    /\ lastOp.op = "render"
    /\ Len(FinalSegments) = 2
    /\ FinalSegments[1].speaker = FinalSegments[2].speaker
    /\ Len(display) = 2
    /\ display[1].key = FinalSegments[1].id
    /\ StandalonePositions = {2}

(***************************************************************************)
(* Properties of the flush scheduling and of clear.                        *)
(***************************************************************************)
Published == segments = BuildRows

\* C12: at most one requestAnimationFrame(flush) callback is outstanding, it is outstanding
\* exactly when the scheduled flag is set, and after a state-mutating upsertTranscript call
\* exactly one is outstanding, however many calls arrived since the last flush.
C12_OneFlushPending ==
    /\ rafPending \in {0, 1}
    /\ scheduled <=> rafPending = 1
    /\ MutatingUpsertJustRan => rafPending = 1

\* Two mutating calls, one per speaker, arrived with no flush and no clear in between,
\* and one callback is outstanding.
C12_Witness ==
    /\ MutatingUpsertJustRan
    /\ nEvents = MaxEvents
    /\ \A sp \in Speakers : RowTextsOf(finalRows, sp) # <<>>
    /\ segments = <<>>
    /\ rafPending = 1

\* C13: whenever the published sequence differs from what the buffer would publish a flush
\* is pending, a flush publishes the buffer as it stands (the call that scheduled it and
\* all calls before it), and the pending flush does run at the next redraw tick.
C13_FlushFollowsUpsert ==
    /\ [](~Published => rafPending > 0)
    /\ [](lastOp.op = "flush" => Published)
    /\ [](MutatingUpsertJustRan => rafPending > 0)
    /\ (~Published ~> Published)

\* A flush has published rows of both speakers that two calls appended since the last flush.
C13_Witness ==
    /\ lastOp.op = "flush"
    /\ nEvents = MaxEvents
    /\ \A sp \in Speakers : RowTextsOf(finalRows, sp) # <<>>
    /\ segments = finalRows
    /\ rafPending = 0

\* C14: clear is always enabled; right after it the finalized-row log, the confirmed words,
\* the commit indices, the interim texts and the published sequence are those of the
\* initial state, and a render of the published sequence, or of what a flush still pending
\* would publish, shows no row.
C14_ClearRestoresEmpty ==
    /\ ENABLED clear
    /\ lastOp.op = "clear" =>
        /\ finalRows = <<>>
        /\ \A sp \in Speakers : confirmedBySpeaker[sp] = <<>> /\ commitIdxBySpeaker[sp] = 0
        /\ interimTextBySpeaker = <<>>
        /\ segments = <<>>
        /\ displayRows(segments) = <<>>
        /\ displayRows(BuildRows) = <<>>

\* clear ran after the events of the run, with a flush still pending.
C14_Witness ==
    /\ lastOp.op = "clear"
    /\ nEvents = MaxEvents
    /\ scheduled /\ rafPending = 1

\* The display shows the interim tail of the speaker: on the speaker's latest coalesced
\* row when there is one, otherwise on a standalone row without text.
TailShown(sp) ==
    LET idx == LatestRowOf(finalizedRows(segments), sp)
    IN  IF idx > 0
        THEN idx <= Len(display) /\ display[idx].interim = InterimTail(sp)
        ELSE \E i \in 1..Len(display) :
                /\ display[i].speaker = sp
                /\ display[i].text = <<>>
                /\ display[i].interim = InterimTail(sp)

\* C16: a render of the published buffer shows the interim tail of every speaker that has
\* a non-empty one, also when both speakers have one.
C16_EveryTailShown ==
    (lastOp.op = "render" /\ Published) =>
        \A sp \in Speakers : InterimTail(sp) # <<>> => TailShown(sp)

(***************************************************************************)
(* The row-cap specification: the buffer starts with a log of about        *)
(* MAX_ROWS fallback finals, delivered one per millisecond by alternating  *)
(* speakers and already flushed, and receives further untimed events.      *)
(***************************************************************************)
PrefilledSpeaker(i) == IF i % 2 = 0 THEN "me" ELSE "them"

PrefilledLog(n) ==
    [i \in 1..n |-> Row(FinalId(PrefilledSpeaker(i), i, "none", 0), PrefilledSpeaker(i),
                        <<"a">>, TRUE)]

InitCap ==
    /\ \E n \in (MAX_ROWS - 1)..(MAX_ROWS + CapSlack) : finalRows = PrefilledLog(n)
    /\ interimTextBySpeaker = <<[sp |-> "me", txt |-> <<>>], [sp |-> "them", txt |-> <<>>]>>
    /\ segments = BuildRows
    /\ confirmedBySpeaker = [sp \in Speakers |-> <<>>]
    /\ commitIdxBySpeaker = [sp \in Speakers |-> 0]
    /\ scheduled = FALSE
    /\ rafPending = 0
    /\ lastOp = [NoOp EXCEPT !.op = "flush"]
    /\ scenario = NoScenario
    /\ wordOnly = [sp \in Speakers |-> FALSE]
    /\ nEvents = 0
    /\ InitAttribution
    /\ clock = StartClock
    /\ display = <<>>
    /\ InitDashboard
    /\ InitLive

NextCap == UpsertUntimed \/ Flush \/ Clear

SpecCap == InitCap /\ [][NextCap]_vars

NoInterimTail == \A sp \in Speakers : InterimTail(sp) = <<>>

\* C5: after a flush with more than MAX_ROWS rows in the log and no interim tail, the
\* published sequence is the MAX_ROWS most recently appended rows, in their order.
C5_NewestRowsPublished ==
    (lastOp.op = "flush" /\ NoInterimTail /\ Len(finalRows) > MAX_ROWS)
        => /\ Len(segments) = MAX_ROWS
           /\ \A k \in 1..MAX_ROWS : segments[k] = finalRows[Len(finalRows) - MAX_ROWS + k]

\* 305 rows were appended, the last by an event of this run, and rows 6 to 305 are shown.
C5_Witness ==
    /\ lastOp.op = "flush" /\ NoInterimTail
    /\ nEvents > 0
    /\ Len(finalRows) = MAX_ROWS + 5
    /\ finalRows[Len(finalRows)].id.ts = StartClock
    /\ segments[1] = finalRows[6]
    /\ segments[MAX_ROWS] = finalRows[MAX_ROWS + 5]

\* C30: flush only reads the buffer: the log, the confirmed words, the commit indices and the
\* interim texts of all speakers are after a flush what they were before it, also when the
\* cap cuts rows from the published copy.
C30_FlushOnlyReads ==
    [][lastOp'.op = "flush" =>
        UNCHANGED <<finalRows, confirmedBySpeaker, commitIdxBySpeaker,
                    interimTextBySpeaker>>]_vars

\* A flush has published MAX_ROWS rows, the last an interim row, of a longer log that is
\* still whole.
C30_Witness ==
    /\ lastOp.op = "flush"
    /\ nEvents > 0
    /\ Len(finalRows) > MAX_ROWS
    /\ finalRows[1].id.ts = 1
    /\ Len(segments) = MAX_ROWS
    /\ ~segments[MAX_ROWS].isFinal
    /\ segments[1] # finalRows[1]

\* The sequence the buffer is stated to publish: the log, then one interim row for every
\* speaker with a non-empty interim text, cut to the newest MAX_ROWS rows.
StatedPublished ==
    LET tails == SelectSeq(interimTextBySpeaker, LAMBDA e : e.txt # <<>>)
        all == finalRows \o [i \in 1..Len(tails) |->
                                Row(InterimId(tails[i].sp), tails[i].sp, tails[i].txt, FALSE)]
    IN  IF Len(all) > MAX_ROWS THEN SubSeq(all, Len(all) - MAX_ROWS + 1, Len(all)) ELSE all

\* C31: whenever no flush is pending the published sequence is the render of the buffer as
\* it stands: the log followed by the interim rows, cut to the newest MAX_ROWS rows.
C31_PublishedWhenIdle ==
    (~scheduled /\ rafPending = 0) => segments = StatedPublished

\* Both events of the run have been published by a flush, with an interim row behind a log
\* of more than MAX_ROWS rows, and no flush is pending.
C31_Witness ==
    /\ ~scheduled /\ rafPending = 0
    /\ lastOp.op = "flush"
    /\ nEvents = MaxEvents
    /\ Len(finalRows) > MAX_ROWS
    /\ \E sp \in Speakers : InterimTail(sp) # <<>>
    /\ segments # finalRows

\* C32: a clear during a pending flush empties the buffer and leaves the callback
\* outstanding; the flush that then runs publishes the buffer as it stands at that moment,
\* hence nothing from before the clear; the flag is set only while a callback is
\* outstanding, so an event accepted after the clear is published at the next tick.
C32_ClearDuringPendingFlush ==
    /\ [][(lastOp'.op = "clear" /\ rafPending = 1) =>
            /\ rafPending' = 1 /\ scheduled'
            /\ finalRows' = <<>> /\ interimTextBySpeaker' = <<>>]_vars
    /\ [][lastOp'.op = "flush" => (segments = StatedPublished)']_vars
    /\ [](scheduled => rafPending > 0)
    /\ (scheduled ~> (~scheduled /\ segments = StatedPublished))

\* clear ran while the flush of the first event was pending; a second event can follow.
C32_Witness ==
    /\ lastOp.op = "clear"
    /\ nEvents = 1
    /\ scheduled /\ rafPending = 1
    /\ segments = <<>>

\* The positions of the interim rows of the published sequence.
InterimPositions == {i \in 1..Len(segments) : ~segments[i].isFinal}

\* C33: the published sequence holds at most one interim row per speaker, with the id
\* "<speaker>-interim" and a non-empty text, behind all finalized rows; and a flush that
\* publishes a finalized row publishes the interim row of every speaker with a tail.
C33_InterimRowsLast ==
    /\ \A i \in InterimPositions :
           /\ segments[i].id = InterimId(segments[i].speaker)
           /\ segments[i].text # <<>>
           /\ \A j \in (i + 1)..Len(segments) : ~segments[j].isFinal
           /\ \A j \in InterimPositions : j # i => segments[j].speaker # segments[i].speaker
    /\ \A i \in 1..Len(segments) : segments[i].isFinal => segments[i].id.kind = "final"
    /\ (lastOp.op = "flush" /\ \E i \in 1..Len(segments) : segments[i].isFinal) =>
           \A sp \in Speakers : InterimTail(sp) # <<>> =>
               \E i \in InterimPositions :
                   segments[i].speaker = sp /\ segments[i].text = InterimTail(sp)

\* The cap has cut the published sequence, which ends in the interim rows of both speakers.
C33_Witness ==
    /\ lastOp.op = "flush"
    /\ Len(finalRows) + 2 > MAX_ROWS
    /\ Len(segments) = MAX_ROWS
    /\ Cardinality(InterimPositions) = 2
    /\ segments[1].isFinal

\* C34: the retained finalized-row log never holds more than MAX_ROWS rows; stated for the
\* states right after a flush, which has applied the cap.
C34_LogBounded ==
    (lastOp.op = "flush" /\ nEvents > 0) => Len(finalRows) <= MAX_ROWS

(***************************************************************************)
(* The display-cap specification: the log holds about MAX_ROWS fallback    *)
(* finals, the oldest with a text of its own, delivered one per            *)
(* millisecond either by alternating speakers or all by 'me'; it was       *)
(* flushed, it receives further untimed events, and LiveTranscript renders *)
(* what is published.                                                      *)
(***************************************************************************)
SpeakerPatterns == {"alternating", "me"}

PatternSpeaker(pat, i) == IF pat = "me" THEN "me" ELSE PrefilledSpeaker(i)

PatternLog(pat, n) ==
    [i \in 1..n |-> Row(FinalId(PatternSpeaker(pat, i), i, "none", 0), PatternSpeaker(pat, i),
                        IF i = 1 THEN <<"b">> ELSE <<"a">>, TRUE)]

InitD ==
    /\ \E n \in (MAX_ROWS - 1)..(MAX_ROWS + CapSlack), pat \in SpeakerPatterns :
            finalRows = PatternLog(pat, n)
    /\ interimTextBySpeaker = <<[sp |-> "me", txt |-> <<>>], [sp |-> "them", txt |-> <<>>]>>
    /\ segments = BuildRows
    /\ confirmedBySpeaker = [sp \in Speakers |-> <<>>]
    /\ commitIdxBySpeaker = [sp \in Speakers |-> 0]
    /\ scheduled = FALSE
    /\ rafPending = 0
    /\ lastOp = [NoOp EXCEPT !.op = "flush"]
    /\ scenario = NoScenario
    /\ wordOnly = [sp \in Speakers |-> FALSE]
    /\ nEvents = 0
    /\ InitAttribution
    /\ clock = StartClock
    /\ display = <<>>
    /\ InitDashboard
    /\ InitLive

NextD == UpsertUntimed \/ Flush \/ Render

SpecD == InitD /\ [][NextD]_vars

\* The newest MAX_ROWS rows of a display.
CapDisplay(rows) ==
    IF Len(rows) > MAX_ROWS THEN SubSeq(rows, Len(rows) - MAX_ROWS + 1, Len(rows)) ELSE rows

\* The display of the whole buffer: the log and the interim rows, coalesced, not capped.
FullDisplay == displayRows(AddInterims(finalRows, interimTextBySpeaker))

\* C17: a render of the published buffer shows the coalesced display of the whole log cut
\* to its newest MAX_ROWS rows; in particular nothing is missing while the coalesced
\* display has at most MAX_ROWS rows.
C17_CapOnCoalescedDisplay ==
    (lastOp.op = "render" /\ Published) => display = CapDisplay(FullDisplay)

(***************************************************************************)
(* The sentence scenario: one speaker delivers growing prefixes of one     *)
(* sentence as interims, with or without word timings, then the sentence   *)
(* as a word-timed final; the other speaker sends events of its own.       *)
(***************************************************************************)
SentenceWords == <<<<"H", "o", "w">>, <<"a", "r", "e">>, <<"y", "o", "u">>>>

\* The strictly increasing end times of n words.
Timings(n) == {t \in [1..n -> 1..MaxSentenceMs] : \A i, j \in 1..n : i < j => t[i] < t[j]}

\* The last n words of SentenceWords, the last one ending in the terminal p.
Sentence(n, p, t) ==
    LET off == Len(SentenceWords) - n
    IN  [i \in 1..n |->
            [text |-> IF i = n THEN SentenceWords[off + i] \o <<p>> ELSE SentenceWords[off + i],
             startMs |-> t[i] - 1, endMs |-> t[i]]]

Sentences ==
    UNION {{Sentence(n, p, t) : p \in Terminal, t \in Timings(n)} : n \in 1..Len(SentenceWords)}

TextsOf(ws) == [i \in 1..Len(ws) |-> ws[i].text]

InitS ==
    /\ InitBuffer
    /\ scenario \in [speaker : Speakers, sentence : Sentences, k : {0}, done : {FALSE},
                     sawTimed : {FALSE}, sawPlain : {FALSE}]
    /\ InitAttribution
    /\ clock = StartClock
    /\ display = <<>>
    /\ InitDashboard
    /\ InitLive

\* The scenario's speaker delivers a longer prefix of the sentence as an interim.
ScenarioInterim ==
    /\ ~scenario.done
    /\ \E k \in (scenario.k + 1)..Len(scenario.sentence), timed \in BOOLEAN :
        LET prefix == SubSeq(scenario.sentence, 1, k)
            text == JoinSp(TextsOf(prefix))
        IN  /\ upsertTranscript(scenario.speaker, text, FALSE, timed,
                                IF timed THEN prefix ELSE <<>>)
            /\ lastOp' = [op |-> "upsert", speaker |-> scenario.speaker, isFinal |-> FALSE,
                          timed |-> timed, noop |-> FALSE, text |-> text,
                          words |-> IF timed THEN prefix ELSE <<>>]
            /\ wordOnly' = IF timed THEN wordOnly
                           ELSE [wordOnly EXCEPT ![scenario.speaker] = FALSE]
            /\ scenario' = [scenario EXCEPT !.k = k,
                                            !.sawTimed = @ \/ timed,
                                            !.sawPlain = @ \/ ~timed]
    /\ UNCHANGED <<liveVars, dashVars, nEvents, clock, attrVars, display>>

\* The scenario's speaker delivers the whole sentence as a final with word timings.
ScenarioFinal ==
    /\ ~scenario.done
    /\ upsertTranscript(scenario.speaker, JoinSp(TextsOf(scenario.sentence)), TRUE, TRUE,
                        scenario.sentence)
    /\ lastOp' = [op |-> "upsert", speaker |-> scenario.speaker, isFinal |-> TRUE,
                  timed |-> TRUE, noop |-> FALSE, text |-> JoinSp(TextsOf(scenario.sentence)),
                  words |-> scenario.sentence]
    /\ scenario' = [scenario EXCEPT !.done = TRUE]
    /\ UNCHANGED <<liveVars, dashVars, wordOnly, nEvents, clock, attrVars, display>>

\* The other speaker delivers an event of its own, without word timings.
ScenarioOther ==
    /\ nEvents < MaxEvents
    /\ \E text \in Texts, isFinal \in BOOLEAN :
        /\ upsertTranscript(OtherSpeaker(scenario.speaker), text, isFinal, FALSE, <<>>)
        /\ UpsertHistory(OtherSpeaker(scenario.speaker), text, isFinal, FALSE, <<>>)
    /\ UNCHANGED <<liveVars, dashVars, scenario, clock, attrVars, display>>

NextS == ScenarioInterim \/ ScenarioFinal \/ ScenarioOther

SpecS == InitS /\ [][NextS]_vars

\* C6: once the final of the scenario is delivered, the speaker has exactly one finalized
\* row, the space-join of the sentence's words, and an empty interim tail.
C6_OneRowForSentence ==
    scenario.done =>
        /\ RowTextsOf(finalRows, scenario.speaker) = <<JoinSp(TextsOf(scenario.sentence))>>
        /\ InterimTail(scenario.speaker) = <<>>

\* A three-word sentence was delivered after interims with and without word timings.
C6_Witness ==
    /\ scenario.done
    /\ lastOp.op = "upsert" /\ lastOp.speaker = scenario.speaker
    /\ Len(scenario.sentence) = 3
    /\ scenario.k = 2
    /\ scenario.sawTimed /\ scenario.sawPlain
    /\ Len(RowTextsOf(finalRows, OtherSpeaker(scenario.speaker))) > 0

(***************************************************************************)
(* The dashboard (src/src/components/InterviewDashboard.tsx:343-400) and   *)
(* the microphone recognizer (src/src/hooks/useMicrophone.ts:90-114): the  *)
(* recognizer writes its results into the slot window.__micLive, a 100 ms  *)
(* timer polls the slot, and Deepgram delivers the system transcripts.     *)
(***************************************************************************)
MaxMicResults == 3
\* onresult events of the recognizer in one run

EchoWindowMs == 6000
\* InterviewDashboard.tsx:390

\* InterviewDashboard.tsx:348  s.replace(/\s+/g, ' ').trim().toLowerCase()
normalizeLower(s) == toLowerCase(normalize(s))

\* The transcripts the recognizer assembles from one result event ('' when there is none).
MicTranscripts == {<<>>, <<"a">>, <<"a", " ", "b">>}

\* window.__micVAD?.rms as the poll reads it: not measured yet, below or above the threshold.
MicRms == {[kind |-> "undefined", val |-> 0], [kind |-> "number", val |-> 5],
           [kind |-> "number", val |-> 10]}

SystemTexts == {<<"A">>, <<"b">>}

Slot(text, isFinal) == [set |-> TRUE, text |-> text, isFinal |-> isFinal]

\* useMicrophone.ts:100-108: the slot after the two assignments of one result event.
SlotAfterResult(slot, interimTranscript, finalTranscript) ==
    IF finalTranscript # <<>> THEN Slot(finalTranscript, TRUE)
    ELSE IF interimTranscript # <<>> THEN Slot(interimTranscript, FALSE)
    ELSE slot

\* useMicrophone.ts:90-114: one onresult event of the recognizer.
MicResult ==
    /\ micLog.results < MaxMicResults
    /\ \E interimTranscript \in MicTranscripts, finalTranscript \in MicTranscripts :
        /\ micLive' = SlotAfterResult(micLive, interimTranscript, finalTranscript)
        /\ micLog' = [micLog EXCEPT !.results = @ + 1,
                                    !.published = IF finalTranscript # <<>>
                                                  THEN Append(@, finalTranscript) ELSE @]
    /\ UNCHANGED <<lastMicSnapshotRef, lastThemFinalRef>>
    /\ UNCHANGED <<bufVars, attrVars, scenario, clock, display, lastOp, wordOnly, nEvents>>
    /\ UNCHANGED liveVars

\* A faulty variant of IsDuplicate: the age of the system final is not looked at.
IsDuplicateAnyAge(slot) ==
    /\ systemActive /\ slot.isFinal /\ lastThemFinalRef.set
    /\ LET micNorm == normalizeLower(slot.text)
           themNorm == lastThemFinalRef.text
       IN  micNorm = themNorm \/ includes(micNorm, themNorm) \/ includes(themNorm, micNorm)

\* InterviewDashboard.tsx:388-394: the mic final repeats a recent final of the system.
IsDuplicate(slot) ==
    /\ systemActive /\ slot.isFinal /\ lastThemFinalRef.set
    /\ clock - lastThemFinalRef.at < EchoWindowMs
    /\ LET micNorm == normalizeLower(slot.text)
           themNorm == lastThemFinalRef.text
       IN  micNorm = themNorm \/ includes(micNorm, themNorm) \/ includes(themNorm, micNorm)

\* A faulty variant of MicPoll: the handled snapshot is not recorded.
MicPollForgetsSnapshot ==
    /\ micLive.set /\ micLive.text # <<>>
    /\ micLive # lastMicSnapshotRef
    /\ lastMicSnapshotRef' = lastMicSnapshotRef
    /\ \E rms \in MicRms :
        LET d == classifyMic(micLive.isFinal, rms)
            handed == d.accept /\ ~IsDuplicate(micLive)
        IN  /\ decision' = d
            /\ lastCall' = [op |-> "mic", isFinal |-> micLive.isFinal, hasRms |-> HasRms(rms),
                            rms |-> rms.val, elapsed |-> clock - lastSystemTs,
                            active |-> systemActive, now |-> clock, sysAt |-> lastCall.sysAt]
            /\ IF handed
               THEN /\ upsertTranscript(d.speaker, micLive.text, micLive.isFinal, FALSE, <<>>)
                    /\ lastOp' = [op |-> "upsert", speaker |-> d.speaker,
                                  isFinal |-> micLive.isFinal, timed |-> FALSE,
                                  noop |-> (normalize(micLive.text) = <<>>),
                                  text |-> micLive.text, words |-> <<>>]
                    /\ wordOnly' = [wordOnly EXCEPT ![d.speaker] = FALSE]
               ELSE /\ UNCHANGED <<bufVars, wordOnly>>
                    /\ lastOp' = [NoOp EXCEPT !.op = "poll"]
            /\ micLog' = IF ~micLive.isFinal THEN micLog
                         ELSE IF handed
                         THEN [micLog EXCEPT !.delivered = Append(@, micLive.text)]
                         ELSE [micLog EXCEPT !.rejected = Append(@, micLive.text)]
    /\ UNCHANGED <<micLive, lastThemFinalRef>>
    /\ UNCHANGED <<lastSystemTs, systemBiasMs, vadThreshold, systemActive>>
    /\ UNCHANGED <<scenario, clock, display, nEvents>>
    /\ UNCHANGED liveVars

\* InterviewDashboard.tsx:377-398: one run of the interval callback.  The early returns
\* of l.380 and l.382 change nothing, so they are the guard.
MicPoll ==
    /\ micLive.set /\ micLive.text # <<>>
    /\ micLive # lastMicSnapshotRef
    /\ lastMicSnapshotRef' = micLive
    /\ \E rms \in MicRms :
        LET d == classifyMic(micLive.isFinal, rms)
            handed == d.accept /\ ~IsDuplicate(micLive)
        IN  /\ decision' = d
            /\ lastCall' = [op |-> "mic", isFinal |-> micLive.isFinal, hasRms |-> HasRms(rms),
                            rms |-> rms.val, elapsed |-> clock - lastSystemTs,
                            active |-> systemActive, now |-> clock, sysAt |-> lastCall.sysAt]
            /\ IF handed
               THEN /\ upsertTranscript(d.speaker, micLive.text, micLive.isFinal, FALSE, <<>>)
                    /\ lastOp' = [op |-> "upsert", speaker |-> d.speaker,
                                  isFinal |-> micLive.isFinal, timed |-> FALSE,
                                  noop |-> (normalize(micLive.text) = <<>>),
                                  text |-> micLive.text, words |-> <<>>]
                    /\ wordOnly' = [wordOnly EXCEPT ![d.speaker] = FALSE]
               ELSE /\ UNCHANGED <<bufVars, wordOnly>>
                    /\ lastOp' = [NoOp EXCEPT !.op = "poll"]
            /\ micLog' = IF ~micLive.isFinal THEN micLog
                         ELSE IF handed
                         THEN [micLog EXCEPT !.delivered = Append(@, micLive.text)]
                         ELSE [micLog EXCEPT !.rejected = Append(@, micLive.text)]
    /\ UNCHANGED <<micLive, lastThemFinalRef>>
    /\ UNCHANGED <<lastSystemTs, systemBiasMs, vadThreshold, systemActive>>
    /\ UNCHANGED <<scenario, clock, display, nEvents>>
    /\ UNCHANGED liveVars

\* InterviewDashboard.tsx:360-370: a transcript of the shared system audio.
SystemTranscript ==
    /\ systemActive
    /\ nEvents < MaxEvents
    /\ \E text \in SystemTexts, isFinal \in BOOLEAN :
        /\ classifySystem
        /\ lastCall' = [NoCall EXCEPT !.op = "system", !.active = systemActive,
                                      !.now = clock, !.sysAt = clock]
        /\ upsertTranscript("them", text, isFinal, FALSE, <<>>)
        /\ UpsertHistory("them", text, isFinal, FALSE, <<>>)
        /\ lastThemFinalRef' = IF isFinal
                               THEN [set |-> TRUE, text |-> normalizeLower(text), at |-> clock]
                               ELSE lastThemFinalRef
    /\ UNCHANGED <<micLive, lastMicSnapshotRef, micLog>>
    /\ UNCHANGED <<systemBiasMs, vadThreshold, systemActive>>
    /\ UNCHANGED <<scenario, clock, display>>
    /\ UNCHANGED liveVars

\* InterviewDashboard.tsx:350-354: every render of the dashboard constructs the attribution
\* anew, and the effects that own the poll and the Deepgram callback take the new object.
Rerender ==
    /\ lastSystemTs # 0
    /\ lastSystemTs' = 0
    /\ UNCHANGED <<systemBiasMs, vadThreshold, systemActive, decision, lastCall>>
    /\ UNCHANGED <<liveVars, dashVars, scenario, bufVars, clock, display, lastOp, wordOnly, nEvents>>

\* The dashboard constructs the attribution with systemBiasMs: 500, vadThreshold: 0.06.
InitM ==
    /\ InitBuffer
    /\ scenario = NoScenario
    /\ lastSystemTs = 0
    /\ systemBiasMs = DashboardSystemBiasMs
    /\ vadThreshold = DefaultVadThreshold
    /\ systemActive = FALSE
    /\ decision = NoDecision
    /\ lastCall = NoCall
    /\ clock = StartClock
    /\ display = <<>>
    /\ InitDashboard
    /\ InitLive

NextM == MicResult \/ MicPoll \/ SystemTranscript \/ ToggleSystem \/ Rerender

SpecM == InitM /\ [][NextM]_vars

\* The poll has handled the content of the slot.
PollCaughtUp == micLive = lastMicSnapshotRef

\* C15: once the poll has handled the slot, every final the recognizer published has been
\* handed to upsertTranscript or rejected by the attributor or the echo dedupe.
C15_NoMicFinalDropped ==
    PollCaughtUp => Len(micLog.published) = Len(micLog.delivered) + Len(micLog.rejected)

\* C37: the mic poll's classifyMic call consults the time of the latest system transcript,
\* also after a re-render: while system audio is shared, a mic interim polled within
\* systemBiasMs of that transcript is rejected.
C37_BiasWindowSurvivesRerender ==
    (lastCall.op = "mic" /\ lastCall.active /\ lastCall.sysAt >= 0) =>
        /\ lastCall.elapsed = lastCall.now - lastCall.sysAt
        /\ (~lastCall.isFinal /\ lastCall.now - lastCall.sysAt <= DashboardSystemBiasMs)
               => ~decision.accept

\* The finalized rows of the microphone's speaker in the log.
MicRows == SelectSeq(finalRows, LAMBDA r : r.speaker = "me")

\* C38: the poll hands a snapshot of the slot to classifyMic and upsertTranscript at most
\* once: once a snapshot is handled, accepted or rejected, the poll does nothing until the
\* slot changes, and every final result gives at most one finalized row.
C38_SnapshotHandledOnce ==
    /\ PollCaughtUp => ~ENABLED MicPoll
    /\ Len(micLog.delivered) + Len(micLog.rejected) <= Len(micLog.published)
    /\ Len(MicRows) = Len(micLog.delivered)
    /\ \A i \in 1..Len(MicRows) : MicRows[i].text = normalize(micLog.delivered[i])

\* One final was rejected, a later one was handed on and gave one row, and the poll has
\* nothing left to do.
C38_Witness ==
    /\ PollCaughtUp
    /\ micLive.set /\ micLive.isFinal
    /\ Len(micLog.rejected) = 1
    /\ Len(micLog.delivered) = 1
    /\ Len(MicRows) = 1
    /\ lastOp.op # "upsert"

(***************************************************************************)
(* The echo-window specification: the dashboard, with system audio shared  *)
(* or not, and Date.now() stepping to the last millisecond inside the echo *)
(* window and to the first one outside it.                                 *)
(***************************************************************************)
EchoClocks == {StartClock, StartClock + EchoWindowMs - 1, StartClock + EchoWindowMs}

\* Time passes between two events of the dashboard.
EchoElapse ==
    /\ \E t \in EchoClocks : t > clock /\ clock' = t
    /\ UNCHANGED <<liveVars, dashVars, scenario, bufVars, attrVars, display, lastOp, wordOnly,
                   nEvents>>

\* The dashboard as InitM has it, with system audio shared from the start or not at all.
InitE ==
    /\ InitBuffer
    /\ scenario = NoScenario
    /\ lastSystemTs = 0
    /\ systemBiasMs = DashboardSystemBiasMs
    /\ vadThreshold = DefaultVadThreshold
    /\ systemActive \in BOOLEAN
    /\ decision = NoDecision
    /\ lastCall = NoCall
    /\ clock = StartClock
    /\ display = <<>>
    /\ InitDashboard
    /\ InitLive

NextE == MicResult \/ MicPoll \/ SystemTranscript \/ EchoElapse

SpecE == InitE /\ [][NextE]_vars

\* The echo condition as stated, for the slot the poll is about to handle.
StatedEcho ==
    /\ systemActive /\ micLive.isFinal /\ lastThemFinalRef.set
    /\ clock - lastThemFinalRef.at < EchoWindowMs
    /\ \/ normalizeLower(micLive.text) = lastThemFinalRef.text
       \/ includes(normalizeLower(micLive.text), lastThemFinalRef.text)
       \/ includes(lastThemFinalRef.text, normalizeLower(micLive.text))

\* C39: while system audio is shared, a final mic transcript that equals, contains or is
\* contained in the latest final system transcript, received less than EchoWindowMs
\* earlier, is not passed to upsertTranscript; every other snapshot is passed on exactly
\* when the attributor accepts it.
C39_EchoSuppressed ==
    [][lastMicSnapshotRef' # lastMicSnapshotRef =>
        /\ lastThemFinalRef.set => lastThemFinalRef.text = normalizeLower(lastThemFinalRef.text)
        /\ StatedEcho => (lastOp'.op = "poll" /\ finalRows' = finalRows
                           /\ interimTextBySpeaker' = interimTextBySpeaker)
        /\ ~StatedEcho => (decision'.accept <=> (lastOp'.op = "upsert"
                                                  /\ lastOp'.speaker = "me"
                                                  /\ lastOp'.text = micLive.text))]_vars

\* The attributor accepted a mic final that contains the system final received
\* EchoWindowMs - 1 earlier, and the poll dropped it: the log holds no 'me' row.
C39_Witness ==
    /\ lastOp.op = "poll"
    /\ lastCall.op = "mic" /\ lastCall.isFinal /\ decision.accept
    /\ PollCaughtUp
    /\ systemActive /\ lastThemFinalRef.set
    /\ clock - lastThemFinalRef.at = EchoWindowMs - 1
    /\ micLive.text = <<"a", " ", "b">>
    /\ lastThemFinalRef.text = <<"b">>
    /\ MicRows = <<>>

(***************************************************************************)
(* The live session (src/src/services/deepgram.ts, startLiveFromStream).   *)
(* liveSession holds the closure variables recorder (null, or the state of *)
(* the MediaRecorder), isOpen and keepAliveTimer (set or null), and conn,  *)
(* the state of the connection of the live client: connecting until the    *)
(* Open event, closing once finish() has been called, closed after the     *)
(* Close event.  useDeepgramLive calls the returned function once and      *)
(* drops it (useDeepgramLive.ts:26-29, 61-64).                             *)
(***************************************************************************)
\* deepgram.ts:53-65, 139: startLiveFromStream has returned closeAll.
StartedSession ==
    [conn |-> "connecting", isOpen |-> FALSE, recorder |-> "null", keepAliveTimer |-> FALSE]

\* deepgram.ts:69 and 131: recorder.stop() unless the recorder is null or inactive.
StopRecorder(r) == IF r = "recording" THEN "inactive" ELSE r

\* deepgram.ts:67-72, the function startLiveFromStream returns.
closeAll ==
    liveSession' = [liveSession EXCEPT
                       !.recorder = StopRecorder(liveSession.recorder),
                       !.conn = IF liveSession.isOpen THEN "closing" ELSE liveSession.conn]

\* deepgram.ts:74-109, the Open handler.  recorder.start may throw (l.104-108), which
\* leaves the recorder inactive.
OpenHandler(started) ==
    liveSession' = [liveSession EXCEPT
                       !.conn = "open",
                       !.isOpen = TRUE,
                       !.keepAliveTimer = TRUE,
                       !.recorder = IF started THEN "recording" ELSE "inactive"]

\* deepgram.ts:128-137, the Close handler.
CloseHandler ==
    liveSession' = [liveSession EXCEPT
                       !.conn = "closed",
                       !.isOpen = FALSE,
                       !.recorder = StopRecorder(liveSession.recorder),
                       !.keepAliveTimer = FALSE]

\* deepgram.ts:96-103: a chunk with data is sent.
OnDataAvailable(hasData) ==
    liveLog' = [liveLog EXCEPT
                   !.chunks = @ + 1,
                   !.sent = IF hasData THEN @ + 1 ELSE @,
                   !.sentAfterCleanup = IF hasData /\ liveLog.cleanupCalled THEN @ + 1 ELSE @]

otherVars == <<dashVars, bufVars, attrVars, scenario, clock, display, lastOp, wordOnly,
               nEvents>>

\* The connection is established and the client emits Open.
LiveOpen ==
    /\ liveSession.conn = "connecting"
    /\ \E started \in BOOLEAN : OpenHandler(started)
    /\ UNCHANGED <<liveLog, otherVars>>

\* The recorder's timeslice elapses and it emits dataavailable.
DataAvailable ==
    /\ liveSession.recorder = "recording"
    /\ liveLog.chunks < MaxChunks
    /\ \E hasData \in BOOLEAN : OnDataAvailable(hasData)
    /\ UNCHANGED <<liveSession, otherVars>>

\* useDeepgramLive.ts:26-29, 61-64: the effect calls the cleanup function and drops it.
Cleanup ==
    /\ ~liveLog.cleanupCalled
    /\ liveSession.conn # "none"
    /\ closeAll
    /\ liveLog' = [liveLog EXCEPT !.cleanupCalled = TRUE]
    /\ UNCHANGED otherVars

\* The connection ends (finish() was answered, the server closed it, or it failed) and the
\* client emits Close.
LiveClose ==
    /\ liveSession.conn \in {"connecting", "open", "closing"}
    /\ CloseHandler
    /\ UNCHANGED <<liveLog, otherVars>>

InitL ==
    /\ InitBuffer
    /\ scenario = NoScenario
    /\ InitAttribution
    /\ clock = StartClock
    /\ display = <<>>
    /\ InitDashboard
    /\ liveSession = StartedSession
    /\ liveLog = NoLiveLog

NextL == LiveOpen \/ DataAvailable \/ Cleanup \/ LiveClose

SpecL == InitL /\ [][NextL]_vars

\* C24: once the cleanup function has been called the recorder is stopped and no further
\* audio chunk is sent, whether the call comes before or after the Open event.
C24_CleanupStopsSending ==
    liveLog.cleanupCalled =>
        /\ liveSession.recorder # "recording"
        /\ liveLog.sentAfterCleanup = 0

====
